---- MODULE Spec2Model ----
(***************************************************************************)
(* Greeting image generator (Cloudflare Workers variant).                  *)
(*                                                                         *)
(* The module models                                                       *)
(*   - the SVG scene builder (class SVGImageGenerator),                    *)
(*   - the profile lookup client (class GitHubService) with its TTL cache, *)
(*   - the /image, /svg and /github endpoint handlers and the router.      *)
(*                                                                         *)
(* Strings that the code inspects character by character (text to be      *)
(* escaped, hex colours) are sequences of one-character strings.  Markup   *)
(* fragments are records holding the attributes the template literal       *)
(* interpolates; coordinates are stored doubled (x2 = 2*x) because the     *)
(* handlers halve the canvas size.                                         *)
(***************************************************************************)
EXTENDS Integers, Sequences, FiniteSets, TLC

VARIABLES
    gen,        \* the SVGImageGenerator under test: [width, height, elements]
    calls,      \* log of the draw calls made on gen (what each call inserted)
    svg,        \* the document toSVG() returned, while it is the latest call on gen
    previous,   \* the document the toSVG() call before that one returned, likewise
    twin,       \* a second generator given the same draw calls TwinDelay ms later
    textPool,   \* the text arguments available to the draw calls of this run
    budget,     \* draw calls still allowed in this run
    now,        \* Date.now() in milliseconds
    cache,      \* GitHubService.cache: username -> entry or NoEntry
    lookups,    \* the getUserInfo invocations (one per /github request)
    stored,     \* log of the successful responses in the order they were cached
    response,   \* the last response returned by the worker's fetch()
    served,     \* what the last dispatch was (request, faults, lookup outcome)
    routed,     \* what handleRequest returned for it, before fetch() adds headers
    args,       \* the arguments of the last direct call of a helper function
    ret         \* what that call returned, or where its loop stands

vars == <<gen, calls, svg, previous, twin, textPool, budget, now, cache,
          lookups, stored, response, served, routed, args, ret>>

sceneVars == <<gen, calls, svg, previous, twin, textPool, budget>>
serviceVars == <<cache, lookups, stored>>
routerVars == <<response, served, routed>>
helperVars == <<args, ret>>

(***************************************************************************)
(* Bounds                                                                  *)
(***************************************************************************)
MaxTextLen == 2
MaxCalls == 2
MaxEscCalls == 1
MaxTicks == 3
TwinDelay == 1

(***************************************************************************)
(* Generic helpers                                                         *)
(***************************************************************************)
Min(a, b) == IF a < b THEN a ELSE b
Max(a, b) == IF a > b THEN a ELSE b

RECURSIVE Flatten(_)
Flatten(ss) == IF ss = <<>> THEN <<>> ELSE Head(ss) \o Flatten(Tail(ss))

Reverse(s) == [i \in 1..Len(s) |-> s[Len(s) + 1 - i]]

SeqsUpTo(S, n) == UNION {[1..k -> S] : k \in 0..n}

Chars(str) ==
    \* the characters of the few literal strings the model needs
    CASE str = "&amp;"  -> <<"&", "a", "m", "p", ";">>
      [] str = "&lt;"   -> <<"&", "l", "t", ";">>
      [] str = "&gt;"   -> <<"&", "g", "t", ";">>
      [] str = "&quot;" -> <<"&", "q", "u", "o", "t", ";">>
      [] str = "&#39;"  -> <<"&", "#", "3", "9", ";">>

(***************************************************************************)
(* SVGImageGenerator.escapeXml: five global replacements, in this order    *)
(***************************************************************************)
ReplaceAll(text, ch, entity) ==
    Flatten([i \in 1..Len(text) |-> IF text[i] = ch THEN entity ELSE <<text[i]>>])

escapeXmlAmpLast(text) ==
    ReplaceAll(ReplaceAll(ReplaceAll(ReplaceAll(ReplaceAll(text,
        "<", Chars("&lt;")), ">", Chars("&gt;")), "\"", Chars("&quot;")),
        "'", Chars("&#39;")), "&", Chars("&amp;"))

escapeXml(text) ==
    ReplaceAll(ReplaceAll(ReplaceAll(ReplaceAll(ReplaceAll(text,
        "&", Chars("&amp;")), "<", Chars("&lt;")), ">", Chars("&gt;")),
        "\"", Chars("&quot;")), "'", Chars("&#39;"))

(***************************************************************************)
(* Markup fragments                                                        *)
(***************************************************************************)
Str(s) == <<s>>                          \* a literal the code never inspects
NoRef == [url |-> FALSE, id |-> "", lit |-> <<>>]       \* attribute absent
Lit(c) == [url |-> FALSE, id |-> "", lit |-> c]         \* a literal value
Url(id) == [url |-> TRUE, id |-> id, lit |-> <<>>]      \* the value url(#id)

Frac(n, d) == [num |-> n, den |-> d]     \* the number n/d (den = 0: NaN)

\* a child node: gradient stop, <animate>, <animateTransform>, <tspan>; a
\* <tspan opacity="0"> carries its <animate>'s begin, dur and values
Kid(tag, id, text, color, offset, begin, dur, values) ==
    [tag |-> tag, id |-> id, text |-> text, color |-> color, offset |-> offset,
     opacity |-> IF tag = "tspan" THEN "0" ELSE "",
     begin |-> begin, dur |-> dur, values |-> values]

NoFrac == Frac(0, 1)

\* a top-level entry of SVGImageGenerator.elements
Elem(tag, def, id, fill, filter, text, kids, geom, style) ==
    [tag |-> tag, def |-> def, id |-> id, fill |-> fill, filter |-> filter,
     text |-> text, kids |-> kids, geom |-> geom, style |-> style]

IsDef(e) == e.tag = "defs"

NewGenerator(width, height) ==
    [width |-> width, height |-> height, elements |-> <<>>]

Unshift(g, e) == [g EXCEPT !.elements = <<e>> \o @]
Push(g, e) == [g EXCEPT !.elements = Append(@, e)]


(***************************************************************************)
(* SVGImageGenerator: the draw calls.  Durations and delays are in         *)
(* milliseconds so that the handlers' 0.5 s and 1.5 s stay integers.       *)
(***************************************************************************)
setBackground(g, color) ==
    Push(g, Elem("rect", "", "", Lit(color), NoRef, <<>>, <<>>, <<>>,
                 <<"100%", "100%">>))

GradientStops(colors, withId, opacity) ==
    [i \in 1..Len(colors) |->
        Kid("stop", IF withId THEN "stop-" \o ToString(i - 1) ELSE "", <<>>,
            colors[i], Frac((i - 1) * 100, Len(colors) - 1), NoFrac, NoFrac,
            opacity)]

\* a static background painted with the first colour only
setGradientBackgroundFlat(g, colors, direction) == setBackground(g, colors[1])

setGradientBackground(g, colors, direction) ==
    LET gradientId == "bg-gradient"
        x2 == IF direction = "horizontal" THEN "100%" ELSE "0%"
        y2 == IF direction = "horizontal" THEN "0%" ELSE "100%"
        stops == GradientStops(colors, FALSE, <<>>)
    IN  Push(Unshift(g, Elem("defs", "linearGradient", gradientId, NoRef, NoRef,
                             <<>>, stops, <<>>, <<"0%", "0%", x2, y2>>)),
             Elem("rect", "", "", Url(gradientId), NoRef, <<>>, <<>>, <<>>,
                  <<"100%", "100%">>))

\* options: [colors, direction, duration, repeatCount, animateType]; t = Date.now()
setAnimatedGradientBackground(g, options, t) ==
    LET colors == options.colors
        n == Len(colors)
        animateType == IF options.animateType = "" THEN "color"
                       ELSE options.animateType
        gradientId == "animated-bg-gradient-" \o ToString(t)
        x2 == IF options.direction \in {"horizontal", "diagonal"}
              THEN "100%" ELSE "0%"
        y2 == IF options.direction \in {"vertical", "diagonal"}
              THEN "100%" ELSE "0%"
        StopAnim(i, attr, values) ==
            Kid("animate", "#stop-" \o ToString(i - 1), <<>>, Str(attr), NoFrac,
                Frac((i - 1) * options.duration, n),
                Frac(options.duration, 1), values)
        kids ==
            CASE animateType = "color" ->
                    GradientStops(colors, TRUE, <<>>) \o
                    [i \in 1..n |->
                        StopAnim(i, "stop-color",
                                 <<colors[i], colors[(i % n) + 1], colors[i]>>)]
              [] animateType = "position" ->
                    GradientStops(colors, FALSE, <<>>) \o
                    <<Kid("animateTransform", "", <<>>, Str("gradientTransform"),
                          NoFrac, NoFrac, Frac(options.duration, 1),
                          <<Str("0,0"), Str("-100,0"), Str("100,0"), Str("0,0")>>)>>
              [] animateType = "opacity" ->
                    GradientStops(colors, TRUE, <<Str("1")>>) \o
                    [i \in 1..n |->
                        StopAnim(i, "stop-opacity",
                                 <<Str("1"), Str("0.3"), Str("1")>>)]
              [] OTHER -> <<>>
    IN  Push(Unshift(g, Elem("defs", "linearGradient", gradientId, NoRef, NoRef,
                             <<>>, kids, <<>>,
                             <<"0%", "0%", x2, y2, options.repeatCount>>)),
             Elem("rect", "", "", Url(gradientId), NoRef, <<>>, <<>>, <<>>,
                  <<"100%", "100%">>))

NoAnimation == [type |-> "", duration |-> 0, delay |-> 0, repeatCount |-> "1"]

\* options: [fontSize, fontFamily, fontWeight, fill, animation]
\* a typewriter whose characters all appear at once
drawAnimatedTextUnstaggered(g, text, x2, y2, options) ==
    LET a == options.animation
        Anim(tag, values) ==
            Kid(tag, "", <<>>, <<>>, NoFrac, Frac(a.delay, 1),
                Frac(a.duration, 1), values)
        animationAttrs ==
            CASE a.type = "fadeIn" ->
                    <<Anim("animate", <<Str("0"), Str("1")>>)>>
              [] a.type = "slideIn" ->
                    <<Anim("animateTransform", <<Str("-50,0"), Str("0,0")>>)>>
              [] a.type = "scaleIn" ->
                    <<Anim("animateTransform", <<Str("0"), Str("1.2"), Str("1")>>)>>
              [] a.type = "bounce" ->
                    <<Anim("animateTransform",
                           <<Str("0,0"), Str("0,-10"), Str("0,0")>>)>>
              [] OTHER -> <<>>
        transformAttrs ==
            CASE a.type = "slideIn" -> "translate(-50, 0)"
              [] a.type = "scaleIn" -> "scale(0)"
              [] OTHER -> ""
        textLength == Len(text)
        \* charDuration = duration / textLength; beginTime = delay
        typewriterContent ==
            [i \in 1..textLength |->
                Kid("tspan", "", escapeXml(<<text[i]>>), <<>>, NoFrac,
                    Frac(a.delay, 1),
                    Frac(a.duration, 2 * textLength), <<Str("0"), Str("1")>>)]
        style(transform) ==
            <<options.fontFamily, ToString(options.fontSize), options.fontWeight,
              "middle", "middle", transform>>
    IN  IF a.type = "typewriter"
        THEN Push(g, Elem("text", "", "", Lit(options.fill), NoRef, <<>>,
                          typewriterContent, <<x2, y2>>, style("")))
        ELSE Push(g, Elem("text", "", "", Lit(options.fill), NoRef,
                          escapeXml(text), animationAttrs, <<x2, y2>>,
                          style(transformAttrs)))

drawAnimatedText(g, text, x2, y2, options) ==
    LET a == options.animation
        Anim(tag, values) ==
            Kid(tag, "", <<>>, <<>>, NoFrac, Frac(a.delay, 1),
                Frac(a.duration, 1), values)
        animationAttrs ==
            CASE a.type = "fadeIn" ->
                    <<Anim("animate", <<Str("0"), Str("1")>>)>>
              [] a.type = "slideIn" ->
                    <<Anim("animateTransform", <<Str("-50,0"), Str("0,0")>>)>>
              [] a.type = "scaleIn" ->
                    <<Anim("animateTransform", <<Str("0"), Str("1.2"), Str("1")>>)>>
              [] a.type = "bounce" ->
                    <<Anim("animateTransform",
                           <<Str("0,0"), Str("0,-10"), Str("0,0")>>)>>
              [] OTHER -> <<>>
        transformAttrs ==
            CASE a.type = "slideIn" -> "translate(-50, 0)"
              [] a.type = "scaleIn" -> "scale(0)"
              [] OTHER -> ""
        textLength == Len(text)
        \* charDuration = duration / textLength; beginTime = delay + i * charDuration
        typewriterContent ==
            [i \in 1..textLength |->
                Kid("tspan", "", escapeXml(<<text[i]>>), <<>>, NoFrac,
                    Frac(a.delay * textLength + (i - 1) * a.duration, textLength),
                    Frac(a.duration, 2 * textLength), <<Str("0"), Str("1")>>)]
        style(transform) ==
            <<options.fontFamily, ToString(options.fontSize), options.fontWeight,
              "middle", "middle", transform>>
    IN  IF a.type = "typewriter"
        THEN Push(g, Elem("text", "", "", Lit(options.fill), NoRef, <<>>,
                          typewriterContent, <<x2, y2>>, style("")))
        ELSE Push(g, Elem("text", "", "", Lit(options.fill), NoRef,
                          escapeXml(text), animationAttrs, <<x2, y2>>,
                          style(transformAttrs)))

\* options: [duration, repeatCount, begin, easing]
addCustomAnimation(g, elementId, attributeName, values, options) ==
    Push(g, Elem("animate", "", "", NoRef, NoRef, <<>>, <<>>,
                 <<options.duration, options.begin>>,
                 <<"#" \o elementId, attributeName, values, options.repeatCount,
                   IF options.easing = "linear" THEN "linear" ELSE "paced">>))

StrokeAttr(stroke, strokeWidth) ==
    IF stroke # "" THEN <<stroke, ToString(strokeWidth)>> ELSE <<>>

\* options: [fontSize, fontFamily, fontWeight, fill, stroke, strokeWidth,
\*           textAnchor, dominantBaseline, filter]
drawText(g, text, x2, y2, options) ==
    Push(g, Elem("text", "", "", Lit(options.fill), options.filter,
                 escapeXml(text), <<>>, <<x2, y2>>,
                 <<options.fontFamily, ToString(options.fontSize),
                   options.fontWeight, options.textAnchor,
                   options.dominantBaseline>>
                 \o StrokeAttr(options.stroke, options.strokeWidth)))

\* options: [fill, stroke, strokeWidth]
drawCircle(g, cx2, cy2, r, options) ==
    Push(g, Elem("circle", "", "", Lit(options.fill), NoRef, <<>>, <<>>,
                 <<cx2, cy2, r>>,
                 StrokeAttr(options.stroke, options.strokeWidth)))

\* options: [fill, stroke, strokeWidth, rx]
drawRectangle(g, x2, y2, width, height, options) ==
    Push(g, Elem("rect", "", "", Lit(options.fill), NoRef, <<>>, <<>>,
                 <<x2, y2, width, height>>
                 \o (IF options.rx > 0 THEN <<options.rx>> ELSE <<>>),
                 StrokeAttr(options.stroke, options.strokeWidth)))

\* a filter registered under a fixed id, whatever id is asked for
addDropShadowFilterFixedId(g, id, dx, dy, blur, opacity) ==
    Unshift(g, Elem("defs", "filter", "shadow", NoRef, NoRef, <<>>, <<>>,
                    <<dx, dy, blur>>, <<opacity>>))

addDropShadowFilterPush(g, id, dx, dy, blur, opacity) ==
    Push(g, Elem("defs", "filter", id, NoRef, NoRef, <<>>, <<>>,
                 <<dx, dy, blur>>, <<opacity>>))

addDropShadowFilter(g, id, dx, dy, blur, opacity) ==
    Unshift(g, Elem("defs", "filter", id, NoRef, NoRef, <<>>, <<>>,
                    <<dx, dy, blur>>, <<opacity>>))

\* elements.join('\n') inside the <svg> root: the entries in list order
generateSVG(g) ==
    [width |-> g.width, height |-> g.height, body |-> g.elements]

toSVG(g) == generateSVG(g)

clear(g) == [g EXCEPT !.elements = <<>>]


(***************************************************************************)
(* Time.  The clock advances in steps that land exactly on the request     *)
(* timeout and on the cache TTL.                                           *)
(***************************************************************************)
timeout == 10000
cacheTimeout == 5 * 60 * 1000

\* the instants visited: 0, timeout, TTL, TTL + timeout, 2 * TTL, ...
TickStep(t) == IF t % cacheTimeout = 0 THEN timeout ELSE cacheTimeout - timeout
MaxNow == (MaxTicks \div 2) * cacheTimeout + (MaxTicks % 2) * timeout

Tick ==
    /\ now + TickStep(now) <= MaxNow
    /\ now' = now + TickStep(now)
    /\ UNCHANGED <<sceneVars, serviceVars, routerVars, helperVars>>

(***************************************************************************)
(* A scene builder driven by arbitrary draw calls                          *)
(***************************************************************************)
TextChars == {"a", "&", "<", ">", "\"", "'"}
Texts == SeqsUpTo(TextChars, MaxTextLen)
SceneTexts == {<<"<", "&">>, <<"a">>}

Coral == <<"#", "f", "f", "6", "b", "6", "b">>
Indigo == <<"#", "6", "6", "7", "e", "e", "a">>

NoDoc == [width |-> 0, height |-> 0, body |-> <<>>]

TextOptions(fontSize, fontWeight, fill, stroke, strokeWidth, anchor, filter) ==
    [fontSize |-> fontSize, fontFamily |-> "Arial, sans-serif",
     fontWeight |-> fontWeight, fill |-> fill, stroke |-> stroke,
     strokeWidth |-> strokeWidth, textAnchor |-> anchor,
     dominantBaseline |-> IF anchor = "" THEN "auto" ELSE "middle",
     filter |-> filter]

AnimatedTextOptions(fontSize, fill, type, duration, delay) ==
    [fontSize |-> fontSize, fontFamily |-> "Arial, sans-serif",
     fontWeight |-> "bold", fill |-> fill,
     animation |-> IF type = "" THEN NoAnimation
                   ELSE [type |-> type, duration |-> duration, delay |-> delay,
                         repeatCount |-> "1"]]

ShapeOptions(fill, stroke, strokeWidth, rx) ==
    [fill |-> fill, stroke |-> stroke, strokeWidth |-> strokeWidth, rx |-> rx]

\* what one draw call did: the definition it prepended, the fragment it appended
Logged(op, text, g2, def, frag) ==
    [op |-> op, text |-> text,
     def |-> IF def THEN <<Head(g2.elements)>> ELSE <<>>,
     frag |-> IF frag THEN <<g2.elements[Len(g2.elements)]>> ELSE <<>>]

Draw(op, text, g2, def, frag) ==
    /\ budget > 0
    /\ budget' = budget - 1
    /\ gen' = g2
    /\ calls' = Append(calls, Logged(op, text, g2, def, frag))
    /\ svg' = NoDoc
    /\ previous' = NoDoc
    /\ UNCHANGED <<textPool, now, serviceVars, routerVars, helperVars>>

SetBackground ==
    /\ Draw("setBackground", <<>>, setBackground(gen, Coral), FALSE, TRUE)
    /\ twin' = setBackground(twin, Coral)

SetGradientBackground ==
    \E a \in {<<<<Coral>>, "horizontal">>, <<<<Coral, Indigo>>, "vertical">>,
               <<<<Coral, Indigo, Coral>>, "horizontal">>} :
        /\ Draw("setGradientBackground", <<>>,
                setGradientBackground(gen, a[1], a[2]), TRUE, TRUE)
        /\ twin' = setGradientBackground(twin, a[1], a[2])

SetAnimatedGradientBackground ==
    \E animateType \in {"color", "position", "opacity"} :
        LET options == [colors |-> <<Coral, Indigo>>, direction |-> "diagonal",
                        duration |-> 4000, repeatCount |-> "indefinite",
                        animateType |-> animateType]
        IN  /\ Draw("setAnimatedGradientBackground", <<>>,
                    setAnimatedGradientBackground(gen, options, now), TRUE, TRUE)
            /\ twin' = setAnimatedGradientBackground(twin, options,
                                                     now + TwinDelay)

DrawAnimatedText ==
    \E text \in textPool,
       type \in {"", "fadeIn", "slideIn", "scaleIn", "bounce", "typewriter"} :
        LET options == AnimatedTextOptions(24, Str("#ffffff"), type, 2000, 1500)
        IN  /\ Draw("drawAnimatedText", text,
                    drawAnimatedText(gen, text, 800, 400, options), FALSE, TRUE)
            /\ twin' = drawAnimatedText(twin, text, 800, 400, options)

AddCustomAnimation ==
    LET options == [duration |-> 1000, repeatCount |-> "1", begin |-> 0,
                    easing |-> "linear"]
    IN  /\ Draw("addCustomAnimation", <<>>,
                addCustomAnimation(gen, "title", "opacity", "0;1", options),
                FALSE, TRUE)
        /\ twin' = addCustomAnimation(twin, "title", "opacity", "0;1", options)

DrawText ==
    \E text \in textPool, filter \in {NoRef, Url("textShadow")} :
        LET options == TextOptions(48, "bold", Str("#ffffff"), "", 1, "middle",
                                   filter)
        IN  /\ Draw("drawText", text, drawText(gen, text, 800, 400, options),
                    FALSE, TRUE)
            /\ twin' = drawText(twin, text, 800, 400, options)

DrawCircle ==
    LET options == ShapeOptions(Str("#cccccc"), "", 1, 0)
    IN  /\ Draw("drawCircle", <<>>, drawCircle(gen, 100, 100, 40, options),
                FALSE, TRUE)
        /\ twin' = drawCircle(twin, 100, 100, 40, options)

DrawRectangle ==
    \E rx \in {0, 10} :
        LET options == ShapeOptions(Str("#cccccc"), "#ffffff", 3, rx)
        IN  /\ Draw("drawRectangle", <<>>,
                    drawRectangle(gen, 100, 100, 80, 80, options), FALSE, TRUE)
            /\ twin' = drawRectangle(twin, 100, 100, 80, 80, options)

AddDropShadowFilter ==
    \E id \in {"textShadow", "glow"} :
        /\ Draw("addDropShadowFilter", <<>>,
                addDropShadowFilter(gen, id, 2, 2, 4, "0.5"), TRUE, FALSE)
        /\ twin' = addDropShadowFilter(twin, id, 2, 2, 4, "0.5")

\* a serialization that hands the fragments over and keeps none
SerializeAndClear ==
    /\ svg' = toSVG(gen)
    /\ previous' = svg
    /\ gen' = clear(gen)
    /\ UNCHANGED <<calls, twin, textPool, budget, now, serviceVars, routerVars,
                   helperVars>>

Serialize ==
    /\ svg' = toSVG(gen)
    /\ previous' = svg
    /\ UNCHANGED <<gen, calls, twin, textPool, budget, now, serviceVars,
                   routerVars, helperVars>>

Clear ==
    /\ budget > 0
    /\ budget' = budget - 1
    /\ gen' = clear(gen)
    /\ twin' = clear(twin)
    /\ calls' = <<>>
    /\ svg' = NoDoc
    /\ previous' = NoDoc
    /\ UNCHANGED <<textPool, now, serviceVars, routerVars, helperVars>>

(***************************************************************************)
(* utils/helpers: colours and dimensions                                   *)
(***************************************************************************)
HexDigits ==
    <<"0", "1", "2", "3", "4", "5", "6", "7", "8", "9",
      "a", "b", "c", "d", "e", "f">>
UpperHexDigits == <<"A", "B", "C", "D", "E", "F">>

IsHexDigit(c) ==
    \/ \E i \in 1..16 : HexDigits[i] = c
    \/ \E i \in 1..6 : UpperHexDigits[i] = c

HexVal(c) ==
    IF \E i \in 1..16 : HexDigits[i] = c
    THEN (CHOOSE i \in 1..16 : HexDigits[i] = c) - 1
    ELSE (CHOOSE i \in 1..6 : UpperHexDigits[i] = c) + 9

\* parseInt(hex, 16): the value of the longest prefix of hex digits; NaN
\* (no digit at all) behaves as 0 under the >> and & that follow
RECURSIVE ParseHex(_, _)
ParseHex(hex, acc) ==
    IF hex = <<>> \/ ~IsHexDigit(Head(hex)) THEN acc
    ELSE ParseHex(Tail(hex), acc * 16 + HexVal(Head(hex)))

\* Number.prototype.toString(16)
RECURSIVE ToHex(_)
ToHex(n) ==
    IF n < 16 THEN <<HexDigits[n + 1]>>
    ELSE Append(ToHex(n \div 16), HexDigits[(n % 16) + 1])

RECURSIVE PadStart(_, _, _)
PadStart(str, len, ch) ==
    IF Len(str) >= len THEN str ELSE PadStart(<<ch>> \o str, len, ch)

\* the hex digits without the zero padding
adjustBrightnessNoPad(color, amount) ==
    IF color # <<>> /\ Head(color) = "#"
    THEN LET num == ParseHex(Tail(color), 0)
             r == Max(0, Min(255, (num \div 65536) + amount))
             g == Max(0, Min(255, ((num \div 256) % 256) + amount))
             b == Max(0, Min(255, (num % 256) + amount))
         IN  <<"#">> \o ToHex(r * 65536 + g * 256 + b)
    ELSE color

\* a clamp whose upper limit is off by one
adjustBrightnessTo256(color, amount) ==
    IF color # <<>> /\ Head(color) = "#"
    THEN LET num == ParseHex(Tail(color), 0)
             r == Max(0, Min(256, (num \div 65536) + amount))
             g == Max(0, Min(256, ((num \div 256) % 256) + amount))
             b == Max(0, Min(256, (num % 256) + amount))
         IN  <<"#">> \o PadStart(ToHex(r * 65536 + g * 256 + b), 6, "0")
    ELSE color

\* handlers/image.ts adjustBrightness.  Its argument has passed validateColor,
\* so num < 2^24 and the 32-bit >> and & act as \div and %.
adjustBrightness(color, amount) ==
    IF color # <<>> /\ Head(color) = "#"
    THEN LET num == ParseHex(Tail(color), 0)
             r == Max(0, Min(255, (num \div 65536) + amount))
             g == Max(0, Min(255, ((num \div 256) % 256) + amount))
             b == Max(0, Min(255, (num % 256) + amount))
         IN  <<"#">> \o PadStart(ToHex(r * 65536 + g * 256 + b), 6, "0")
    ELSE color

\* what parseInt returns: NaN, or an integer
NotANumber == [num |-> FALSE, val |-> 0]
Num(v) == [num |-> TRUE, val |-> v]

IsDecDigit(c) == \E i \in 1..10 : HexDigits[i] = c

RECURSIVE SkipWhiteSpace(_)
SkipWhiteSpace(str) ==
    IF str # <<>> /\ Head(str) = " " THEN SkipWhiteSpace(Tail(str)) ELSE str

RECURSIVE ParseDec(_, _)
ParseDec(str, acc) ==
    IF str = <<>> \/ ~IsDecDigit(Head(str)) THEN acc
    ELSE ParseDec(Tail(str), acc * 10 + HexVal(Head(str)))

\* an optional 0x prefix, then the longest prefix of digits; NaN without one
ParseUnsigned(str) ==
    IF Len(str) >= 2 /\ str[1] = "0" /\ str[2] \in {"x", "X"}
    THEN IF Len(str) >= 3 /\ IsHexDigit(str[3])
         THEN Num(ParseHex(Tail(Tail(str)), 0)) ELSE NotANumber
    ELSE IF str # <<>> /\ IsDecDigit(Head(str))
         THEN Num(ParseDec(str, 0)) ELSE NotANumber

\* an optional sign
ParseSigned(str) ==
    IF str # <<>> /\ Head(str) = "-"
    THEN [ParseUnsigned(Tail(str)) EXCEPT !.val = -@]
    ELSE IF str # <<>> /\ Head(str) = "+" THEN ParseUnsigned(Tail(str))
    ELSE ParseUnsigned(str)

\* parseInt(str) without a radix: leading white space, an optional sign, an
\* optional 0x prefix, then the longest prefix of digits; NaN without a digit
parseInt(str) == ParseSigned(SkipWhiteSpace(str))

\* a clamp that forgets the lower limit
ClampDimensionNoFloor(raw, dflt) ==
    LET n == parseInt(raw)
    IN  Min(2000, IF n.num /\ n.val # 0 THEN n.val ELSE dflt)

\* Math.max(100, Math.min(2000, parseInt(String(x)) || dflt)): NaN and 0 are
\* both falsy
ClampDimension(raw, dflt) ==
    LET n == parseInt(raw)
    IN  Max(100, Min(2000, IF n.num /\ n.val # 0 THEN n.val ELSE dflt))

validateDimensions(width, height) ==
    [w |-> ClampDimension(width, 1200), h |-> ClampDimension(height, 630)]

\* String.prototype.replace('#', ''): removes the first '#'
RECURSIVE RemoveFirstHash(_)
RemoveFirstHash(color) ==
    IF color = <<>> THEN <<>>
    ELSE IF Head(color) = "#" THEN Tail(color)
    ELSE <<Head(color)>> \o RemoveFirstHash(Tail(color))

\* random: the colour getRandomColor() would draw
validateColor(color, random) ==
    LET cleanColor == RemoveFirstHash(color)
    IN  IF Len(cleanColor) = 6 /\ \A i \in 1..6 : IsHexDigit(cleanColor[i])
        THEN <<"#">> \o cleanColor
        ELSE random

(***************************************************************************)
(* utils/messages: two rows of the MESSAGES table                          *)
(***************************************************************************)
Greetings ==
    {[language |-> "English", message |-> "Hello"],
     [language |-> "Afrikaans", message |-> "Hallo"]}

(***************************************************************************)
(* HTTP responses                                                          *)
(***************************************************************************)
HeaderNames ==
    {"Content-Type", "Cache-Control", "Expires", "ETag", "Vary", "Pragma",
     "Retry-After", "Access-Control-Allow-Origin",
     "Access-Control-Allow-Methods", "Access-Control-Allow-Headers",
     "X-Content-Type-Options", "X-Frame-Options", "X-XSS-Protection"}

NoHeaders == [n \in HeaderNames |-> ""]

\* headers.set for each field of the record hs
WithHeaders(headers, hs) ==
    [n \in HeaderNames |-> IF n \in DOMAIN hs THEN hs[n] ELSE headers[n]]

\* new Response(body, {status, headers}); text is a plain body, doc an image
Response(status, headers, text, doc) ==
    [status |-> status, headers |-> headers, text |-> text, doc |-> doc]

NoResponse == Response(0, NoHeaders, "", NoDoc)

\* the content types for which contentType.startsWith('image/') holds
ImageTypes ==
    {"image/svg+xml", "image/png", "image/jpeg", "image/gif", "image/x-icon"}

\* utils/performance createOptimizedCacheHeaders
createOptimizedCacheHeaders(contentType, isStatic, t) ==
    IF isStatic
    THEN [n \in {"Cache-Control", "Expires", "ETag", "Vary"} |->
            CASE n = "Cache-Control" -> "public, max-age=86400, s-maxage=86400"
              [] n = "Expires" -> ToString(t + 86400 * 1000)
              [] n = "ETag" -> ToString(t)
              [] n = "Vary" -> "Accept-Encoding"]
    ELSE IF contentType \in ImageTypes
    THEN [n \in {"Cache-Control", "Expires", "Vary"} |->
            CASE n = "Cache-Control" -> "public, max-age=300, s-maxage=300"
              [] n = "Expires" -> ToString(t + 300 * 1000)
              [] n = "Vary" -> "Accept"]
    ELSE [n \in {"Cache-Control", "Expires", "Pragma"} |->
            CASE n = "Cache-Control" -> "private, no-cache, no-store, must-revalidate"
              [] n = "Expires" -> "-1"
              [] n = "Pragma" -> "no-cache"]

\* utils/performance createOptimizedResponse (a fifth argument is ignored)
createOptimizedResponse(doc, contentType, isStatic, t) ==
    Response(200,
             WithHeaders(WithHeaders(NoHeaders,
                             [n \in {"Content-Type"} |-> contentType]),
                         createOptimizedCacheHeaders(contentType, isStatic, t)),
             "", doc)

PlainResponse(status, text) ==
    Response(status,
             WithHeaders(NoHeaders, [n \in {"Content-Type"} |-> "text/plain"]),
             text, NoDoc)

(***************************************************************************)
(* services/github: errors of getUserInfo.  A message is the sequence of   *)
(* its words; String.prototype.includes is a search for consecutive words. *)
(***************************************************************************)
RECURSIVE Join(_)
Join(chars) == IF chars = <<>> THEN "" ELSE Head(chars) \o Join(Tail(chars))

Error(name, message) == [name |-> name, message |-> message]
NoError == Error("", <<>>)

StatusText(status) ==
    CASE status = 403 -> <<"Forbidden">>
      [] status = 404 -> <<"Not", "Found">>
      [] status = 500 -> <<"Internal", "Server", "Error">>
      [] status = 504 -> <<"Gateway", "Timeout">>
      [] OTHER -> <<>>

NotFoundMessage(username) ==
    <<"GitHub", "user", "'" \o Join(username) \o "'", "not", "found">>
RateLimitMessage == <<"GitHub", "API", "rate", "limit", "exceeded">>
TimeoutMessage == <<"GitHub", "API", "request", "timeout">>

\* the throw statements of the !response.ok branch, without the 403 test
StatusErrorNo403(status, username) ==
    IF status = 404 THEN Error("Error", NotFoundMessage(username))
    ELSE Error("Error", <<"GitHub", "API", "error:", ToString(status)>>
                        \o StatusText(status))

\* the throw statements of the !response.ok branch
StatusError(status, username) ==
    IF status = 404 THEN Error("Error", NotFoundMessage(username))
    ELSE IF status = 403 THEN Error("Error", RateLimitMessage)
    ELSE Error("Error", <<"GitHub", "API", "error:", ToString(status)>>
                        \o StatusText(status))

\* what fetch() and response.json() reject with
AbortError == Error("AbortError", <<"The", "operation", "was", "aborted">>)
NetworkError == Error("TypeError", <<"Network", "connection", "lost.">>)
JsonError == Error("SyntaxError", <<"Unexpected", "end", "of", "JSON", "input">>)

\* the catch block of getUserInfo
CatchError(error) ==
    IF error.name = "AbortError" THEN Error("Error", TimeoutMessage) ELSE error

Includes(message, words) ==
    \E i \in 1..Len(message) :
        /\ i + Len(words) - 1 <= Len(message)
        /\ SubSeq(message, i, i + Len(words) - 1) = words

\* utils/error-handling; statusCode is context.statusCode (0: not set)
AppError(type, message, statusCode) ==
    [type |-> type, message |-> message, statusCode |-> statusCode]

handleGitHubError(error, username) ==
    IF Includes(error.message, <<"not", "found">>)
    THEN AppError("GITHUB_API_ERROR", NotFoundMessage(username), 404)
    ELSE IF Includes(error.message, <<"rate", "limit">>)
    THEN AppError("GITHUB_API_ERROR",
                  <<"GitHub", "API", "rate", "limit", "exceeded.", "Please",
                    "try", "again", "later.">>, 403)
    ELSE IF Includes(error.message, <<"timeout">>)
    THEN AppError("TIMEOUT_ERROR",
                  <<"GitHub", "API", "request", "timed", "out.", "Please",
                    "try", "again.">>, 0)
    ELSE AppError("GITHUB_API_ERROR",
                  <<"Failed", "to", "fetch", "GitHub", "user", "information">>, 0)

createErrorResponse(type) ==
    CASE type = "GITHUB_API_ERROR" ->
            Response(502, WithHeaders(NoHeaders,
                     [n \in {"Content-Type"} |-> "application/json"]), type, NoDoc)
      [] type = "VALIDATION_ERROR" ->
            Response(400, WithHeaders(NoHeaders,
                     [n \in {"Content-Type"} |-> "application/json"]), type, NoDoc)
      [] type \in {"NETWORK_ERROR", "TIMEOUT_ERROR"} ->
            Response(504, WithHeaders(NoHeaders,
                     [n \in {"Content-Type"} |-> "application/json"]), type, NoDoc)
      [] type = "IMAGE_GENERATION_ERROR" ->
            Response(500, WithHeaders(NoHeaders,
                     [n \in {"Content-Type"} |-> "text/plain"]),
                     "Failed to generate image. Please try again.", NoDoc)
      [] OTHER ->
            Response(500, WithHeaders(NoHeaders,
                     [n \in {"Content-Type"} |-> "application/json"]), type, NoDoc)

createFallbackResponse ==
    Response(503,
             WithHeaders(NoHeaders,
                 [n \in {"Content-Type", "Retry-After"} |->
                     IF n = "Content-Type" THEN "text/plain" ELSE "60"]),
             "Service temporarily unavailable", NoDoc)

(***************************************************************************)
(* Profile records and the outcome of a lookup                             *)
(***************************************************************************)
\* the fields of GitHubUserInfo the handlers read; hasLogin is FALSE when the
\* upstream body has no string login
Profile(login, publicRepos, hasLogin) ==
    [login |-> login, public_repos |-> publicRepos, followers |-> 0,
     hasLogin |-> hasLogin]

NoProfile == Profile(<<>>, 0, FALSE)

Resolved(data) == [ok |-> TRUE, data |-> data, error |-> NoError]
Rejected(error) == [ok |-> FALSE, data |-> NoProfile, error |-> error]
Pending == [ok |-> FALSE, data |-> NoProfile, error |-> NoError]

(***************************************************************************)
(* Requests.  A query holds the raw parameter values; <<>> / "" is absent. *)
(* env holds what a request draws from its environment: the greeting       *)
(* picked by getRandomGreeting, the values of Math.random, and the modules *)
(* whose dynamic import() rejects.                                         *)
(***************************************************************************)
Query(user, bg, w, h, animated, animateType, textAnimation) ==
    [user |-> user, bg |-> bg, w |-> w, h |-> h, animated |-> animated,
     animateType |-> animateType, textAnimation |-> textAnimation]

Request(method, path, q) == [method |-> method, path |-> path, q |-> q]

Env(greeting, random, failing) ==
    [greeting |-> greeting, random |-> random, failing |-> failing]

\* random.hex: Math.floor(Math.random()*16777215).toString(16), drawn up to
\* three times per request; random.color: getRandomColor()
Random(hex1, hex2, hex3, color) ==
    [hex1 |-> hex1, hex2 |-> hex2, hex3 |-> hex3, color |-> color]

DefaultUser == <<"u", "s", "e", "r">>

(***************************************************************************)
(* handlers/image                                                          *)
(***************************************************************************)
parseImageParams(q, random) ==
    LET dims == validateDimensions(IF q.w # <<>> THEN q.w ELSE <<"1", "2", "0", "0">>,
                                   IF q.h # <<>> THEN q.h ELSE <<"6", "3", "0">>)
    IN  [backgroundColor |->
            validateColor(IF q.bg # <<>> THEN q.bg ELSE <<"#">> \o random.hex1,
                          random.color),
         width |-> dims.w, height |-> dims.h,
         animated |-> (q.animated = "true"),
         animateType |-> IF q.animateType # "" THEN q.animateType ELSE "color",
         textAnimation |-> (q.textAnimation # "false")]

generateSimpleImage(params, greeting, random, t) ==
    LET width == params.width
        height == params.height
        backgroundColor == params.backgroundColor
        g0 == addDropShadowFilter(NewGenerator(width, height), "textShadow",
                                  2, 2, 4, "0.5")
        g1 == IF params.animated
              THEN setAnimatedGradientBackground(g0,
                       [colors |-> <<backgroundColor, <<"#">> \o random.hex2,
                                     <<"#">> \o random.hex3,
                                     adjustBrightness(backgroundColor, -20)>>,
                        direction |-> "diagonal", duration |-> 4000,
                        repeatCount |-> "indefinite",
                        animateType |-> params.animateType], t)
              ELSE setGradientBackground(g0,
                       <<backgroundColor, adjustBrightness(backgroundColor, -20)>>,
                       "vertical")
        language == <<"(", greeting.language, ")">>
        g2 == IF params.animated /\ params.textAnimation
              THEN drawAnimatedText(g1, Str(greeting.message), width, height - 100,
                       AnimatedTextOptions(70, Str("#ffffff"), "fadeIn", 2000, 500))
              ELSE drawText(g1, Str(greeting.message), width, height - 100,
                       TextOptions(70, "bold", Str("#ffffff"), "#000000", 2,
                                   "middle", Url("textShadow")))
        g3 == IF params.animated /\ params.textAnimation
              THEN drawAnimatedText(g2, language, width, height + 40,
                       AnimatedTextOptions(24, Str("#ffffff"), "scaleIn", 1500, 1500))
              ELSE drawText(g2, language, width, height + 40,
                       TextOptions(24, "bold", Str("#ffffff"), "#000000", 1,
                                   "middle", Url("textShadow")))
    IN  toSVG(g3)

handleImageEndpoint(q, env, t) ==
    IF "performance" \in env.failing
    THEN PlainResponse(500, "Failed to generate image")
    ELSE createOptimizedResponse(
             generateSimpleImage(parseImageParams(q, env.random), env.greeting,
                                 env.random, t),
             "image/svg+xml", FALSE, t)

(***************************************************************************)
(* handlers/github                                                         *)
(***************************************************************************)
parseGitHubParams(q) ==
    LET dims == validateDimensions(IF q.w # <<>> THEN q.w ELSE <<"1", "2", "0", "0">>,
                                   IF q.h # <<>> THEN q.h ELSE <<"6", "3", "0">>)
    IN  [user |-> IF q.user # <<>> THEN q.user ELSE DefaultUser,
         width |-> dims.w, height |-> dims.h]

\* a placeholder record that forgets who was asked for
FallbackUserInfoAnonymous(user) == Profile(DefaultUser, 0, TRUE)

\* the placeholder record built in the catch block around getUserInfo
FallbackUserInfo(user) == Profile(user, 0, TRUE)

\* [threw, doc]: the scene, or threw = TRUE when an exception escapes
generateGitHubImage(params, outcome, env) ==
    LET width == params.width
        height == params.height
        userInfo == IF outcome.ok THEN outcome.data
                    ELSE FallbackUserInfo(params.user)
        g0 == addDropShadowFilter(NewGenerator(width, height), "textShadow",
                                  3, 3, 6, "0.4")
        g1 == setGradientBackground(g0,
                  <<Indigo, <<"#", "7", "6", "4", "b", "a", "2">>>>, "vertical")
        g2 == drawText(g1, Str(env.greeting.message), width, height - 160,
                  TextOptions(60, "bold", Str("#ffffff"), "#000000", 2, "middle",
                              Url("textShadow")))
        g3 == drawText(g2, <<"--(", env.greeting.language, ")--">>, width,
                  height - 40,
                  TextOptions(20, "normal", Str("#ffffff"), "", 1, "middle",
                              Url("textShadow")))
        g4 == drawText(g3, userInfo.login, 2 * (width - 200), 160,
                  TextOptions(30, "normal", Str("#03A87C"),
                              "rgba(255, 255, 255, 0.5)", 1, "start", NoRef))
        g5 == drawRectangle(g4, 100, 200, width - 280, 2,
                  ShapeOptions(Str("#03A87C"), "", 1, 0))
        g6 == IF userInfo.public_repos > 0 \/ userInfo.followers > 0
              THEN drawText(g5, <<ToString(userInfo.public_repos), " repos - ",
                                  ToString(userInfo.followers), " followers">>,
                       100, 280,
                       TextOptions(18, "normal", Str("#ffffff"), "", 1, "start",
                                   NoRef))
              ELSE g5
        g7 == drawRectangle(g6, 100, 100, 80, 80,
                  ShapeOptions(Str("#cccccc"), "#ffffff", 3, 10))
        g8 == drawText(g7, Str("avatar-glyph"), 180, 180,
                  TextOptions(40, "normal", Str("#000000"), "", 1, "middle", NoRef))
    IN  IF "messages" \in env.failing \/ ~userInfo.hasLogin
        THEN [threw |-> TRUE, doc |-> NoDoc]
        ELSE [threw |-> FALSE, doc |-> toSVG(g8)]

generateFallbackImage(params, env) ==
    LET width == params.width
        height == params.height
        shadowed(fontSize, strokeWidth, filter) ==
            TextOptions(fontSize, "bold", Str("#ffffff"), "#000000", strokeWidth,
                        "middle", filter)
        g0 == addDropShadowFilter(NewGenerator(width, height), "textShadow",
                                  2, 2, 4, "0.5")
        g1 == setBackground(g0, env.random.color)
        g2 == drawText(g1, Str("GitHub API Unavailable"), width, height - 200,
                       shadowed(40, 2, Url("textShadow")))
        g3 == drawText(g2, Str(env.greeting.message), width, height - 40,
                       shadowed(50, 2, Url("textShadow")))
        g4 == drawText(g3, <<"(", env.greeting.language, ")">>, width, height + 60,
                       shadowed(24, 1, NoRef))
        g5 == drawText(g4, params.user, width, height + 160, shadowed(30, 1, NoRef))
    IN  IF "messages" \in env.failing
        THEN [threw |-> TRUE, doc |-> NoDoc]
        ELSE [threw |-> FALSE, doc |-> toSVG(g5)]

\* outcome: how the awaited getUserInfo(user) settled
handleGitHubEndpoint(q, outcome, env, t) ==
    LET params == parseGitHubParams(q)
        rich == generateGitHubImage(params, outcome, env)
        result == IF rich.threw THEN generateFallbackImage(params, env) ELSE rich
    IN  IF result.threw \/ "performance" \in env.failing
        THEN PlainResponse(500, "Failed to generate GitHub greeting image")
        ELSE createOptimizedResponse(result.doc, "image/svg+xml", FALSE, t)

(***************************************************************************)
(* utils/static-content and index: the router                              *)
(***************************************************************************)
StaticPaths == {"/style.css", "/script.js"}

getContentType(path) ==
    CASE path = "/style.css" -> "text/css; charset=utf-8"
      [] path = "/script.js" -> "application/javascript; charset=utf-8"
      [] OTHER -> "text/plain; charset=utf-8"

\* only called for a path in STATIC_FILES; otherwise the result is null
serveStaticFile(path, t) ==
    Response(200,
             WithHeaders(WithHeaders(NoHeaders,
                             [n \in {"Content-Type"} |-> getContentType(path)]),
                         createOptimizedCacheHeaders(getContentType(path),
                                                     path # "/", t)),
             path, NoDoc)

\* a copy that does not pass the original headers to the new Response
addCorsHeadersFresh(resp) ==
    [resp EXCEPT !.headers = WithHeaders(NoHeaders,
        [n \in {"Access-Control-Allow-Origin", "Access-Control-Allow-Methods",
                "Access-Control-Allow-Headers"} |->
            CASE n = "Access-Control-Allow-Origin" -> "*"
              [] n = "Access-Control-Allow-Methods" -> "GET, POST, OPTIONS"
              [] n = "Access-Control-Allow-Headers" -> "Content-Type"])]

addCorsHeaders(resp) ==
    [resp EXCEPT !.headers = WithHeaders(@,
        [n \in {"Access-Control-Allow-Origin", "Access-Control-Allow-Methods",
                "Access-Control-Allow-Headers"} |->
            CASE n = "Access-Control-Allow-Origin" -> "*"
              [] n = "Access-Control-Allow-Methods" -> "GET, POST, OPTIONS"
              [] n = "Access-Control-Allow-Headers" -> "Content-Type"])]

addSecurityHeaders(resp) ==
    [resp EXCEPT !.headers = WithHeaders(@,
        [n \in {"X-Content-Type-Options", "X-Frame-Options",
                "X-XSS-Protection"} |->
            CASE n = "X-Content-Type-Options" -> "nosniff"
              [] n = "X-Frame-Options" -> "DENY"
              [] n = "X-XSS-Protection" -> "1; mode=block"])]

handleOptions == addCorsHeaders(Response(204, NoHeaders, "", NoDoc))

handleNotFound == PlainResponse(404, "Not Found")

\* an error path that reports every exception as a gateway failure
handleErrorBadGateway(error, failing) ==
    createErrorResponse("GITHUB_API_ERROR")

\* error: [appError, type]
handleError(error, failing) ==
    IF "error-handling" \in failing
    THEN PlainResponse(500, "Internal Server Error")
    ELSE IF error.appError THEN createErrorResponse(error.type)
    ELSE createFallbackResponse

\* the searchParams.set calls of handleSVG
SvgQuery(q) ==
    [q EXCEPT !.animated = "true",
              !.animateType = IF @ # "" THEN @ ELSE "color",
              !.textAnimation = IF @ # "" THEN @ ELSE "true"]

\* a rejected import() inside the try block throws a plain Error
ImportError == [appError |-> FALSE, type |-> ""]

handleRequest(request, outcome, env, t) ==
    LET path == request.path
    IN  IF request.method = "OPTIONS" THEN handleOptions
        ELSE IF "static-content" \in env.failing
        THEN handleError(ImportError, env.failing)
        ELSE IF path \in StaticPaths
        THEN IF "performance" \in env.failing
             THEN handleError(ImportError, env.failing)
             ELSE serveStaticFile(path, t)
        ELSE IF path \in {"/", "/image", "/svg", "/github"}
                /\ "handlers" \in env.failing
        THEN handleError(ImportError, env.failing)
        ELSE CASE path \in {"/", "/image"} ->
                    handleImageEndpoint(request.q, env, t)
               [] path = "/svg" -> handleImageEndpoint(SvgQuery(request.q), env, t)
               [] path = "/github" ->
                    handleGitHubEndpoint(request.q, outcome, env, t)
               [] OTHER -> handleNotFound

\* export default { fetch }
fetch(request, outcome, env, t) ==
    addSecurityHeaders(addCorsHeaders(handleRequest(request, outcome, env, t)))

(***************************************************************************)
(* services/github: the cache and the steps of getUserInfo                 *)
(***************************************************************************)
MaxLookups == 2

Users == {<<"a", "&">>, <<"b">>}

\* what the API can send as the body of a 200: the profile in two versions,
\* or a document without a login
Bodies(username) ==
    {Profile(username, 0, TRUE), Profile(username, 8, TRUE), NoProfile}

FetchStatuses == {200, 403, 404, 500, 504}

\* Map.get(username): the entry, or undefined (has = FALSE)
NoEntry == [has |-> FALSE, data |-> NoProfile, timestamp |-> 0]
Entry(data, t) == [has |-> TRUE, data |-> data, timestamp |-> t]

\* cached && Date.now() - cached.timestamp <= cacheTimeout
IsFreshInclusive(cached, t) ==
    cached.has /\ t - cached.timestamp <= cacheTimeout

\* cached && Date.now() - cached.timestamp < this.cacheTimeout
IsFresh(cached, t) ==
    cached.has /\ t - cached.timestamp < cacheTimeout

\* a set that keeps an entry already present
cacheSetKeepOld(c, username, data, t) ==
    IF c[username].has THEN c ELSE [c EXCEPT ![username] = Entry(data, t)]

\* this.cache.set(username, {data, timestamp: Date.now()})
cacheSet(c, username, data, t) ==
    [c EXCEPT ![username] = Entry(data, t)]

\* a catch block that evicts the entry of the failed lookup
cacheAfterErrorEvict(c, username) ==
    [c EXCEPT ![username] = NoEntry]

\* the catch block: no cache operation
cacheAfterError(c, username) ==
    c

\* why a lookup failed, as the network saw it
Cause(kind, status) == [kind |-> kind, status |-> status]
NoCause == Cause("", 0)

\* one invocation of getUserInfo.  pc: "fetching" (awaiting fetch),
\* "reading" (awaiting response.json()), "done".  timer: the setTimeout of
\* the abort controller.  The other fields record what the invocation saw.
Lookup(user, pc, timer, t, seen, fetches, outcome) ==
    [user |-> user, pc |-> pc, timer |-> timer, startedAt |-> t,
     entrySeen |-> seen, fetches |-> fetches, outcome |-> outcome,
     cause |-> NoCause, settledAt |-> IF pc = "done" THEN t ELSE 0,
     cacheBefore |-> seen, cacheAfter |-> seen]

QuietEnv ==
    Env([language |-> "English", message |-> "Hello"],
        Random(<<"a", "b", "c", "d", "e", "f">>, <<"1", "2", "3", "4", "5", "6">>,
               <<"f", "f">>, <<"#", "3", "A", "7", "F", "0", "C">>),
        {})

NoQuery == Query(<<>>, <<>>, <<>>, <<>>, "", "", "")
NoRequest == Request("", "", NoQuery)
GitHubGet(user) == Request("GET", "/github", [NoQuery EXCEPT !.user = user])

Served(request, outcome, env) ==
    [request |-> request, outcome |-> outcome, env |-> env]
NoServed == Served(NoRequest, Pending, QuietEnv)

\* the handler resumes with the settled lookup and answers the request
Answer(user, outcome) ==
    /\ routed' = handleRequest(GitHubGet(user), outcome, QuietEnv, now)
    /\ response' = addSecurityHeaders(addCorsHeaders(routed'))
    /\ served' = Served(GitHubGet(user), outcome, QuietEnv)

Settled(l, outcome, cause, before, after) ==
    [l EXCEPT !.pc = "done", !.outcome = outcome, !.cause = cause,
              !.settledAt = now, !.cacheBefore = before, !.cacheAfter = after]

\* the throw reaches the catch block and getUserInfo rejects
Fail(i, error, cause, timer) ==
    LET l == lookups[i]
        c2 == cacheAfterError(cache, l.user)
    IN  /\ cache' = c2
        /\ lookups' = [lookups EXCEPT
               ![i] = Settled([l EXCEPT !.timer = timer],
                              Rejected(CatchError(error)), cause,
                              cache[l.user], c2[l.user])]
        /\ Answer(l.user, Rejected(CatchError(error)))
        /\ UNCHANGED <<stored, now, sceneVars, helperVars>>

\* GET /github?user=<username>: the handler calls getUserInfo, which checks
\* the cache and either returns the cached record or starts the fetch
GitHubRequest ==
    \E username \in Users :
        LET cached == cache[username]
        IN  /\ Len(lookups) < MaxLookups
            /\ IF IsFresh(cached, now)
               THEN /\ lookups' = Append(lookups,
                           Lookup(username, "done", "none", now, cached, 0,
                                  Resolved(cached.data)))
                    /\ Answer(username, Resolved(cached.data))
               ELSE /\ lookups' = Append(lookups,
                           Lookup(username, "fetching", "pending", now, cached,
                                  1, Pending))
                    /\ UNCHANGED routerVars
            /\ UNCHANGED <<cache, stored, now, sceneVars, helperVars>>

\* fetch resolves with a status line; clearTimeout; a non-2xx status throws
FetchResponds ==
    \E i \in 1..Len(lookups), status \in FetchStatuses :
        LET l == lookups[i]
        IN  /\ l.pc = "fetching"
            /\ IF status = 200
               THEN /\ lookups' = [lookups EXCEPT ![i].pc = "reading",
                                                  ![i].timer = "cleared"]
                    /\ UNCHANGED <<cache, stored, now, sceneVars, routerVars,
                                   helperVars>>
               ELSE Fail(i, StatusError(status, l.user), Cause("status", status),
                         "cleared")

\* fetch rejects with a network error; the timer is left running
FetchFails ==
    \E i \in 1..Len(lookups) :
        /\ lookups[i].pc = "fetching"
        /\ Fail(i, NetworkError, Cause("network", 0), lookups[i].timer)

\* the setTimeout callback: controller.abort() rejects a pending fetch
TimerFires ==
    \E i \in 1..Len(lookups) :
        LET l == lookups[i]
        IN  /\ l.timer = "pending"
            /\ now >= l.startedAt + timeout
            /\ IF l.pc = "fetching"
               THEN Fail(i, AbortError, Cause("abort", 0), "fired")
               ELSE /\ lookups' = [lookups EXCEPT ![i].timer = "fired"]
                    /\ UNCHANGED <<cache, stored, now, sceneVars, routerVars,
                                   helperVars>>

\* response.json() resolves: the record is cached and returned
BodyArrives ==
    \E i \in 1..Len(lookups) :
        \E userInfo \in Bodies(lookups[i].user) :
            LET l == lookups[i]
                c2 == cacheSet(cache, l.user, userInfo, now)
            IN  /\ l.pc = "reading"
                /\ cache' = c2
                /\ stored' = Append(stored,
                       [user |-> l.user, entry |-> Entry(userInfo, now), by |-> i])
                /\ lookups' = [lookups EXCEPT
                       ![i] = Settled(l, Resolved(userInfo), NoCause,
                                      cache[l.user], c2[l.user])]
                /\ Answer(l.user, Resolved(userInfo))
                /\ UNCHANGED <<now, sceneVars, helperVars>>

\* response.json() rejects: the body is not JSON
BodyFails ==
    \E i \in 1..Len(lookups) :
        /\ lookups[i].pc = "reading"
        /\ Fail(i, JsonError, Cause("body", 0), lookups[i].timer)

\* time passes, unless a timer that is due has not run yet
TickService ==
    /\ \A i \in 1..Len(lookups) :
           lookups[i].timer = "pending" => now < lookups[i].startedAt + timeout
    /\ Tick

\* no helper function has been called directly
NoArgs == [fn |-> ""]
NoResult == [pc |-> "idle"]

InitIdle ==
    /\ now = 0
    /\ cache = [u \in Users |-> NoEntry]
    /\ lookups = <<>>
    /\ stored = <<>>
    /\ response = NoResponse
    /\ served = NoServed
    /\ routed = NoResponse
    /\ args = NoArgs
    /\ ret = NoResult

InitBuilderIdle ==
    /\ gen = NewGenerator(0, 0)
    /\ twin = NewGenerator(0, 0)
    /\ calls = <<>>
    /\ svg = NoDoc
    /\ previous = NoDoc
    /\ textPool = {}
    /\ budget = 0

InitService == InitBuilderIdle /\ InitIdle

NextService ==
    \/ GitHubRequest
    \/ FetchResponds
    \/ FetchFails
    \/ TimerFires
    \/ BodyArrives
    \/ BodyFails
    \/ TickService

SpecService == InitService /\ [][NextService]_vars

MaxLiveLookups == 1

\* the same steps, for fewer calls
NextServiceLive ==
    \/ Len(lookups) < MaxLiveLookups /\ GitHubRequest
    \/ FetchResponds
    \/ FetchFails
    \/ TimerFires
    \/ BodyArrives
    \/ BodyFails
    \/ TickService

\* ENABLED <<TimerFires>>_vars, written out
TimerDue ==
    \E i \in 1..Len(lookups) :
        /\ lookups[i].timer = "pending"
        /\ now >= lookups[i].startedAt + timeout

\* The clock advances and the runtime runs a due setTimeout callback (a timer
\* runs once, so weak fairness of TimerFires is: no timer stays due for ever);
\* the upstream is under no obligation to answer or to finish a body.
SpecServiceLive ==
    /\ InitService
    /\ [][NextServiceLive]_vars
    /\ WF_vars(TickService)
    /\ []<>~TimerDue

(***************************************************************************)
(* The worker answering one request at a time.  The lookup a /github       *)
(* request awaits has settled in one of the ways getUserInfo can settle.   *)
(***************************************************************************)
Modules ==
    {"static-content", "handlers", "messages", "performance", "error-handling"}

Randoms ==
    {Random(<<"a", "b", "c", "d", "e", "f">>, <<"1", "2", "3", "4", "5", "6">>,
            <<"f", "f">>, <<"#", "3", "A", "7", "F", "0", "C">>),
     Random(<<"f", "f">>, <<"9">>, <<"0", "0", "0", "0", "0", "1">>, Coral)}

Envs ==
    {Env(greeting, random, failing) :
        greeting \in Greetings, random \in Randoms, failing \in SUBSET Modules}

Dimensions ==
    {<<<<>>, <<"a">>>>, <<<<"-", "5">>, <<"5", "0", "0", "0">>>>,
     <<<<"0">>, <<"1", "5", "0", ".", "9">>>>}

Backgrounds == {<<>>, Coral, <<"r", "e", "d">>}

ImageQueries ==
    {Query(<<>>, bg, d[1], d[2], animated, animateType, textAnimation) :
        bg \in Backgrounds, d \in Dimensions, animated \in {"", "true"},
        animateType \in {"", "position", "opacity", "wave"},
        textAnimation \in {"", "false"}}

GitHubQueries ==
    {Query(user, <<>>, d[1], d[2], "", "", "") :
        user \in Users \cup {<<>>}, d \in Dimensions}

Outcomes(username) ==
    {Resolved(userInfo) : userInfo \in Bodies(username)}
    \cup {Rejected(CatchError(StatusError(status, username))) :
            status \in FetchStatuses \ {200}}
    \cup {Rejected(CatchError(e)) : e \in {AbortError, NetworkError, JsonError}}

\* the body of fetch: const response = await handleRequest(request, env);
\* return addSecurityHeaders(addCorsHeaders(response))
Handle(request, outcome, env) ==
    /\ routed' = handleRequest(request, outcome, env, now)
    /\ response' = addSecurityHeaders(addCorsHeaders(routed'))
    /\ served' = Served(request, outcome, env)
    /\ UNCHANGED <<sceneVars, serviceVars, now, helperVars>>

RequestImage ==
    /\ response = NoResponse
    /\ \E path \in {"/", "/image"}, q \in ImageQueries, env \in Envs :
        Handle(Request("GET", path, q), Pending, env)

RequestSvg ==
    /\ response = NoResponse
    /\ \E q \in ImageQueries, env \in Envs :
        Handle(Request("GET", "/svg", q), Pending, env)

RequestGitHub ==
    /\ response = NoResponse
    /\ \E q \in GitHubQueries, env \in Envs :
        \E outcome \in Outcomes(parseGitHubParams(q).user) :
            Handle(Request("GET", "/github", q), outcome, env)

RequestStatic ==
    /\ response = NoResponse
    /\ \E path \in StaticPaths, env \in Envs :
        Handle(Request("GET", path, NoQuery), Pending, env)

RequestUnknown ==
    /\ response = NoResponse
    /\ \E path \in {"/favicon.ico", "/index.html"}, env \in Envs :
        Handle(Request("GET", path, NoQuery), Pending, env)

RequestOptions ==
    /\ response = NoResponse
    /\ \E path \in {"/", "/github", "/favicon.ico"}, env \in Envs :
        Handle(Request("OPTIONS", path, NoQuery), Pending, env)

\* the runtime sends the response; the worker is ready for the next request
Deliver ==
    /\ response # NoResponse
    /\ response' = NoResponse
    /\ served' = NoServed
    /\ routed' = NoResponse
    /\ UNCHANGED <<sceneVars, serviceVars, now, helperVars>>

InitRouter == InitBuilderIdle /\ InitIdle

NextRouter ==
    \/ RequestImage
    \/ RequestSvg
    \/ RequestGitHub
    \/ RequestStatic
    \/ RequestUnknown
    \/ RequestOptions
    \/ Deliver
    \/ Tick

SpecRouter == InitRouter /\ [][NextRouter]_vars

(***************************************************************************)
(* handlers/github, the variant without a profile lookup: its parameters   *)
(***************************************************************************)
parseGitHubImageParams(q, random) ==
    LET dims == validateDimensions(IF q.w # <<>> THEN q.w ELSE <<"1", "2", "0", "0">>,
                                   IF q.h # <<>> THEN q.h ELSE <<"6", "3", "0">>)
    IN  [backgroundColor |-> IF q.bg # <<>> THEN q.bg ELSE <<"#">> \o random.hex1,
         width |-> dims.w, height |-> dims.h,
         animated |-> (q.animated = "true"),
         animateType |-> IF q.animateType # "" THEN q.animateType ELSE "color",
         textAnimation |-> (q.textAnimation # "false")]

(***************************************************************************)
(* utils/helpers getGradientStops.  A double is [tenths, ulps, inf]: the   *)
(* double nearest to tenths/10, moved by ulps units in the last place, or  *)
(* an infinity.                                                            *)
(***************************************************************************)
Double(tenths, ulps) == [tenths |-> tenths, ulps |-> ulps, inf |-> FALSE]
Infinity == [tenths |-> 0, ulps |-> 0, inf |-> TRUE]

Abs(n) == IF n < 0 THEN -n ELSE n
Sign(n) == IF n < 0 THEN -1 ELSE 1

\* parseFloat((1 / stops).toFixed(1)): one decimal, a tie rounded away from 0
StopInc(stops) ==
    IF stops = 0 THEN Infinity
    ELSE Double(Sign(stops) * ((20 + Abs(stops)) \div (2 * Abs(stops))), 0)

\* the rounding error IEEE-754 addition leaves in initStop after it has
\* grown to tenths/10 in steps of inc/10: 0.1+0.1+0.1 is 0.30000000000000004,
\* 0.2+0.2+0.2 is 0.6000000000000001, 0.3+0.3+0.3 is 0.8999999999999999, and
\* eight to eleven additions of 0.1 give 0.7999999999999999 ..
\* 1.0999999999999999
Ulps(inc, tenths) ==
    CASE Abs(inc) = 1 /\ Abs(tenths) = 3 -> Sign(tenths)
      [] Abs(inc) = 1 /\ Abs(tenths) \in 8..11 -> -Sign(tenths)
      [] Abs(inc) = 2 /\ Abs(tenths) = 6 -> Sign(tenths)
      [] Abs(inc) = 3 /\ Abs(tenths) = 9 -> -Sign(tenths)
      [] OTHER -> 0

\* initStop + stopInc
Plus(initStop, stopInc) ==
    IF stopInc.inf THEN Infinity
    ELSE Double(initStop.tenths + stopInc.tenths,
                Ulps(stopInc.tenths, initStop.tenths + stopInc.tenths))

\* initStop < 1
LessThanOne(d) == ~d.inf /\ (d.tenths < 10 \/ (d.tenths = 10 /\ d.ulps < 0))

\* initStop !== 1
IsNotOne(d) == d # Double(10, 0)

\* gStop[key] = color
SetStop(gStop, key, color) ==
    [k \in DOMAIN gStop \cup {key} |-> IF k = key THEN color ELSE gStop[k]]

(***************************************************************************)
(* The helper functions called directly, each on arguments drawn when the  *)
(* run starts                                                              *)
(***************************************************************************)
MaxOffset == 11

\* getUserInfo: the URL it hands to fetch, `${this.baseUrl}/users/${username}`,
\* after the origin https://api.github.com
ProfileUrl(username) == <<"/", "u", "s", "e", "r", "s", "/">> \o username

\* the position of the first c in chars, or Len(chars) + 1
FirstIndex(chars, c) ==
    IF \E i \in 1..Len(chars) : chars[i] = c
    THEN CHOOSE i \in 1..Len(chars) :
             chars[i] = c /\ \A j \in 1..(i - 1) : chars[j] # c
    ELSE Len(chars) + 1

RECURSIVE SplitPath(_)
SplitPath(chars) ==
    IF FirstIndex(chars, "/") > Len(chars) THEN <<chars>>
    ELSE <<SubSeq(chars, 1, FirstIndex(chars, "/") - 1)>>
         \o SplitPath(SubSeq(chars, FirstIndex(chars, "/") + 1, Len(chars)))

\* the URL parser drops a "." segment and lets ".." remove the segment
\* before it; either one in last position leaves an empty last segment
RECURSIVE RemoveDotSegments(_, _)
RemoveDotSegments(segments, acc) ==
    IF segments = <<>> THEN acc
    ELSE IF Head(segments) = <<".", ".">>
    THEN RemoveDotSegments(Tail(segments),
             (IF acc = <<>> THEN acc ELSE SubSeq(acc, 1, Len(acc) - 1))
             \o (IF Len(segments) = 1 THEN <<<<>>>> ELSE <<>>))
    ELSE IF Head(segments) = <<".">>
    THEN RemoveDotSegments(Tail(segments),
             acc \o (IF Len(segments) = 1 THEN <<<<>>>> ELSE <<>>))
    ELSE RemoveDotSegments(Tail(segments), Append(acc, Head(segments)))

\* what the request built by fetch(url) asks the server for: the path
\* segments and the query of url; the fragment is not sent
BeforeFragment(url) == SubSeq(url, 1, FirstIndex(url, "#") - 1)

RequestTarget(url) ==
    [path |-> RemoveDotSegments(
                  SplitPath(SubSeq(BeforeFragment(url), 2,
                                   FirstIndex(BeforeFragment(url), "?") - 1)),
                  <<>>),
     query |-> SubSeq(BeforeFragment(url),
                      FirstIndex(BeforeFragment(url), "?") + 1,
                      Len(BeforeFragment(url)))]

\* utils/performance optimizedFetch: what one fetch can settle with (a
\* status, or 0 for a rejection), and the calls made
FetchOutcomes == {0, 200, 304, 404, 429, 500, 503}

RetryCounts == {0, 1, 2, 3}

RetryDelays == {1000, 250}

\* response.ok
Ok(status) == status \in 200..299

\* the Error the try block throws for a response, or fetch's own rejection
HttpError(status) ==
    IF status = 0 THEN [name |-> "TypeError", status |-> 0]
    ELSE [name |-> "Error", status |-> status]

Undefined == [name |-> "undefined", status |-> 0]

RawUsers ==
    {<<>>, <<"b">>, <<"a", "-", "1">>, <<"a", "/", "b">>, <<".", ".">>,
     <<".", ".", "/", "r">>, <<"a", "?", "b">>, <<"a", "#", "b">>}

RawDimensions ==
    {<<>>, <<"a">>, <<"-", "5">>, <<"0">>, <<"5", "0">>, <<"9", "9">>,
     <<"1", "0", "0">>, <<"1", "5", "0", ".", "9">>, <<"4", "0", "0">>,
     <<"8", "0", "0">>, <<"2", "0", "0", "0">>, <<"2", "0", "0", "1">>,
     <<"5", "0", "0", "0">>, <<"1", "0", "0", "0", "0", "0", "0">>}

RawColors ==
    {<<>>, Coral, <<"#", "F", "F", "6", "B", "6", "B">>,
     <<"1", "2", "3", "a", "b", "c">>, <<"r", "e", "d">>, <<"#", "f", "f">>,
     <<"#", "f", "f", "6", "b", "6", "b", "0">>,
     <<"\"", ">", "<", "s", "c", "r", "i", "p", "t", ">">>}

HexColors ==
    {Coral, Indigo, <<"#", "0", "0", "0", "0", "0", "0">>,
     <<"#", "f", "f", "f", "f", "f", "f">>, <<"#", "0", "0", "0", "a", "f", "f">>,
     <<"#", "F", "F", "6", "B", "6", "B">>, <<"#", "3", "A", "7", "F", "0", "C">>}

Amounts == {-300, -50, -20, -1, 0, 1, 20, 50, 300}

StopCounts == {-21, -3, -1, 0, 1, 2, 3, 4, 5, 6, 10, 20, 21}

RandomColors == {Coral, <<"#", "3", "A", "7", "F", "0", "C">>}

HelperCalls ==
    {[fn |-> "validateDimensions", width |-> w, height |-> h] :
        w \in RawDimensions, h \in RawDimensions}
    \cup {[fn |-> "parseImageParams",
           q |-> Query(<<>>, bg, d, d, "", "", ""), random |-> random] :
            bg \in RawColors, d \in {<<>>, <<"0">>, <<"5", "0">>}, random \in Randoms}
    \cup {[fn |-> "parseGitHubParams",
           q |-> Query(<<>>, bg, d, d, "", "", ""), random |-> random] :
            bg \in RawColors, d \in {<<>>, <<"0">>, <<"5", "0">>}, random \in Randoms}
    \cup {[fn |-> "adjustBrightness", color |-> color, amount |-> amount] :
            color \in HexColors, amount \in Amounts}
    \cup {[fn |-> "getGradientStops", stops |-> stops] : stops \in StopCounts}
    \cup {[fn |-> "optimizedFetch", retries |-> retries, retryDelay |-> retryDelay] :
            retries \in RetryCounts, retryDelay \in RetryDelays}
    \cup {[fn |-> "getUserInfo", q |-> Query(user, <<>>, d, d, "", "", "")] :
            user \in RawUsers, d \in {<<>>, <<"5", "0">>}}

Returned(value) == [pc |-> "returned", value |-> value]

Called(fn) == args.fn = fn /\ ret = NoResult

ValidateDimensions ==
    /\ Called("validateDimensions")
    /\ ret' = Returned(validateDimensions(args.width, args.height))
    /\ UNCHANGED <<args, sceneVars, serviceVars, routerVars, now>>

ParseImageParams ==
    /\ Called("parseImageParams")
    /\ ret' = Returned(parseImageParams(args.q, args.random))
    /\ UNCHANGED <<args, sceneVars, serviceVars, routerVars, now>>

ParseGitHubParams ==
    /\ Called("parseGitHubParams")
    /\ ret' = Returned(parseGitHubImageParams(args.q, args.random))
    /\ UNCHANGED <<args, sceneVars, serviceVars, routerVars, now>>

AdjustBrightness ==
    /\ Called("adjustBrightness")
    /\ ret' = Returned(adjustBrightness(args.color, args.amount))
    /\ UNCHANGED <<args, sceneVars, serviceVars, routerVars, now>>

\* GET /github?user=...: parseGitHubParams, then getUserInfo(params.user)
\* up to its fetch call
GetUserInfo ==
    /\ Called("getUserInfo")
    /\ ret' = Returned(RequestTarget(ProfileUrl(parseGitHubParams(args.q).user)))
    /\ UNCHANGED <<args, sceneVars, serviceVars, routerVars, now>>

\* the for statement's test, attempt <= retries: the next fetch is sent, or
\* the loop is left and lastError is thrown
ForTest(attempt, lastError, attempts, waits) ==
    IF attempt <= args.retries
    THEN [pc |-> "fetch", attempt |-> attempt, lastError |-> lastError,
          attempts |-> attempts, waits |-> waits]
    ELSE [pc |-> "thrown", error |-> lastError, attempts |-> attempts,
          waits |-> waits]

\* optimizedFetch up to its first await
OptimizedFetch ==
    /\ Called("optimizedFetch")
    /\ ret' = ForTest(1, Undefined, <<>>, <<>>)
    /\ UNCHANGED <<args, sceneVars, serviceVars, routerVars, now>>

\* the awaited fetch settles: an ok response is returned; anything else is
\* thrown inside the try block and caught, and the catch block either
\* starts the delay or falls through to attempt++
FetchSettles ==
    /\ args.fn = "optimizedFetch"
    /\ ret.pc = "fetch"
    /\ \E status \in FetchOutcomes :
          ret' = IF Ok(status)
                 THEN [pc |-> "returned", value |-> status,
                       attempts |-> Append(ret.attempts, status),
                       waits |-> ret.waits]
                 ELSE IF ret.attempt < args.retries
                 THEN [ret EXCEPT !.pc = "delay",
                                  !.lastError = HttpError(status),
                                  !.attempts = Append(@, status),
                                  !.waits = Append(@, args.retryDelay * ret.attempt)]
                 ELSE ForTest(ret.attempt + 1, HttpError(status),
                              Append(ret.attempts, status), ret.waits)
    /\ UNCHANGED <<args, sceneVars, serviceVars, routerVars, now>>

\* the setTimeout of the catch block resolves; attempt++
DelayEnds ==
    /\ args.fn = "optimizedFetch"
    /\ ret.pc = "delay"
    /\ ret' = ForTest(ret.attempt + 1, ret.lastError, ret.attempts, ret.waits)
    /\ UNCHANGED <<args, sceneVars, serviceVars, routerVars, now>>

\* getGradientStops up to its while loop
GetGradientStops ==
    /\ Called("getGradientStops")
    /\ ret' = [pc |-> "while", gStop |-> <<>>, stopInc |-> StopInc(args.stops),
               initStop |-> Double(0, 0)]
    /\ UNCHANGED <<args, sceneVars, serviceVars, routerVars, now>>

\* one iteration of while (initStop < 1); the model follows a descending
\* initStop down to -MaxOffset tenths
WhileBody ==
    /\ ret.pc = "while"
    /\ LessThanOne(ret.initStop)
    /\ ret.initStop.tenths > -MaxOffset
    /\ \E color \in RandomColors :
           ret' = [ret EXCEPT
               !.gStop = SetStop(@, ret.initStop, color),
               !.initStop = Plus(@, ret.stopInc)]
    /\ UNCHANGED <<args, sceneVars, serviceVars, routerVars, now>>

\* the loop condition fails: the final stop, and the return
WhileExit ==
    /\ ret.pc = "while"
    /\ ~LessThanOne(ret.initStop)
    /\ \E color \in RandomColors :
           ret' = Returned(IF IsNotOne(ret.initStop)
                              THEN SetStop(ret.gStop, Double(10, 0), color)
                              ELSE ret.gStop)
    /\ UNCHANGED <<args, sceneVars, serviceVars, routerVars, now>>

InitHelpers ==
    /\ InitBuilderIdle
    /\ now = 0
    /\ cache = [u \in Users |-> NoEntry]
    /\ lookups = <<>>
    /\ stored = <<>>
    /\ response = NoResponse
    /\ served = NoServed
    /\ routed = NoResponse
    /\ args \in HelperCalls
    /\ ret = NoResult

NextHelpers ==
    \/ ValidateDimensions
    \/ ParseImageParams
    \/ ParseGitHubParams
    \/ AdjustBrightness
    \/ GetUserInfo
    \/ OptimizedFetch
    \/ FetchSettles
    \/ DelayEnds
    \/ GetGradientStops
    \/ WhileBody
    \/ WhileExit

SpecHelpers == InitHelpers /\ [][NextHelpers]_vars

\* a call that was made runs, and its loop is never suspended
SpecHelpersLive ==
    /\ SpecHelpers
    /\ WF_vars(GetGradientStops)
    /\ WF_vars(WhileBody)
    /\ WF_vars(WhileExit)

(***************************************************************************)
(* The scene builder on its own                                            *)
(***************************************************************************)
InitScene ==
    /\ gen = NewGenerator(800, 400)
    /\ twin = NewGenerator(800, 400)
    /\ calls = <<>>
    /\ svg = NoDoc
    /\ previous = NoDoc
    /\ textPool = SceneTexts
    /\ budget = MaxCalls
    /\ InitIdle

InitEscape ==
    /\ gen = NewGenerator(800, 400)
    /\ twin = NewGenerator(800, 400)
    /\ calls = <<>>
    /\ svg = NoDoc
    /\ previous = NoDoc
    /\ textPool \in {{t} : t \in Texts}
    /\ budget = MaxEscCalls
    /\ InitIdle

NextScene ==
    \/ SetBackground
    \/ SetGradientBackground
    \/ SetAnimatedGradientBackground
    \/ DrawAnimatedText
    \/ AddCustomAnimation
    \/ DrawText
    \/ DrawCircle
    \/ DrawRectangle
    \/ AddDropShadowFilter
    \/ Serialize
    \/ Clear
    \/ Tick

SpecScene == InitScene /\ [][NextScene]_vars
SpecEscape == InitEscape /\ [][NextScene]_vars

(***************************************************************************)
(* Properties of the scene builder                                         *)
(***************************************************************************)
Entities ==
    {Chars("&amp;"), Chars("&lt;"), Chars("&gt;"), Chars("&quot;"), Chars("&#39;")}

EntityOf(c) ==
    CASE c = "&"  -> Chars("&amp;")
      [] c = "<"  -> Chars("&lt;")
      [] c = ">"  -> Chars("&gt;")
      [] c = "\"" -> Chars("&quot;")
      [] c = "'"  -> Chars("&#39;")
      [] OTHER    -> <<c>>

\* the text with each metacharacter replaced, once, by its entity
Escaped(text) == Flatten([i \in 1..Len(text) |-> EntityOf(text[i])])

\* the character data of a <text> element, <tspan> children included
TextContent(e) == e.text \o Flatten([k \in 1..Len(e.kids) |-> e.kids[k].text])

NoRawMeta(content) ==
    \A i \in 1..Len(content) :
        /\ content[i] \notin {"<", ">", "\"", "'"}
        /\ content[i] = "&" =>
              \E ent \in Entities :
                  /\ i + Len(ent) - 1 <= Len(content)
                  /\ SubSeq(content, i, i + Len(ent) - 1) = ent

TextElems(doc) == {k \in 1..Len(doc.body) : doc.body[k].tag = "text"}

\* C1: every text drawn by drawText or drawAnimatedText (all animation types,
\* the per-character typewriter path included) appears in the serialized
\* document with each of & < > " ' replaced by its entity and never raw.
C1_TextEscaped ==
    svg # NoDoc =>
        \A k \in TextElems(svg) :
            /\ \E t \in textPool : TextContent(svg.body[k]) = Escaped(t)
            /\ NoRawMeta(TextContent(svg.body[k]))

C1_Witness ==
    /\ svg # NoDoc
    /\ textPool = {<<"&", "<">>}
    /\ \E k \in TextElems(svg) :
          /\ Len(svg.body[k].kids) = 2
          /\ svg.body[k].kids[1].tag = "tspan"
          /\ svg.body[k].kids[1].text = Chars("&amp;")

LoggedDefs == Flatten([i \in 1..Len(calls) |-> calls[i].def])
LoggedFrags == Flatten([i \in 1..Len(calls) |-> calls[i].frag])

\* C2 as claimed: the serialized document lists the definitions first, in the
\* order they were inserted, then the other fragments in draw-call order.
C2_DefsInInsertionOrder ==
    svg # NoDoc => svg.body = LoggedDefs \o LoggedFrags

\* C2 amended: the serialized document lists the definitions first, the most
\* recently inserted one first (reverse insertion order), then the other
\* fragments in draw-call order.
C2_DefsFirstNewestFirst ==
    svg # NoDoc => svg.body = Reverse(LoggedDefs) \o LoggedFrags

C2_Witness ==
    /\ svg # NoDoc
    /\ Len(LoggedDefs) = 2
    /\ LoggedDefs[1] # LoggedDefs[2]
    /\ Len(LoggedFrags) >= 1

(***************************************************************************)
(* Properties of the scenes the handlers build                             *)
(***************************************************************************)
DefIds(doc) == {doc.body[k].id : k \in {j \in 1..Len(doc.body) : IsDef(doc.body[j])}}

UrlRefs(doc) ==
    {doc.body[k].fill.id : k \in {j \in 1..Len(doc.body) : doc.body[j].fill.url}}
    \cup
    {doc.body[k].filter.id : k \in {j \in 1..Len(doc.body) : doc.body[j].filter.url}}

\* C3: in every scene a handler serializes, each url(#id) carried by a
\* fragment's fill or filter names a definition of the same document.
C3_RefsResolve ==
    response.doc # NoDoc => UrlRefs(response.doc) \subseteq DefIds(response.doc)

\* an animated /image scene with static text: the fill refers to the
\* gradient named after the clock, the text filter to the shadow
C3_Witness ==
    /\ served.request.path = "/image"
    /\ served.request.q.animated = "true"
    /\ served.request.q.textAnimation = "false"
    /\ now > 0
    /\ UrlRefs(response.doc) =
           {"animated-bg-gradient-" \o ToString(now), "textShadow"}

Failed(outcome) == ~outcome.ok /\ outcome.error # NoError

HasText(doc, content) ==
    \E k \in TextElems(doc) : doc.body[k].text = content

\* C4: a /github request whose lookup failed, in whatever way, is answered
\* with status 200 and an image holding the username, entity-escaped.
C4_FailedLookupAnswered200 ==
    (served.request.path = "/github" /\ Failed(served.outcome)) =>
        /\ response.status = 200
        /\ response.doc # NoDoc
        /\ HasText(response.doc, Escaped(served.request.q.user))

\* the lookup for a&  timed out and the image still carries a&amp;
C4_Witness ==
    /\ served.request.q.user = <<"a", "&">>
    /\ Failed(served.outcome)
    /\ served.outcome.error.message = TimeoutMessage
    /\ response.status = 200
    /\ HasText(response.doc, <<"a", "&", "a", "m", "p", ";">>)

\* the reduced scene: the generic unavailability message
IsDegradedScene(doc) == HasText(doc, <<"GitHub API Unavailable">>)

\* the rich scene: the underline and the avatar placeholder
IsRichScene(doc) ==
    \E k \in 1..Len(doc.body) :
        /\ doc.body[k].tag = "rect"
        /\ Len(doc.body[k].geom) >= 4
        /\ \/ doc.body[k].geom[4] = 2
           \/ Len(doc.body[k].geom) = 5

\* C5: whenever the lookup of a /github request fails, the image returned is
\* the reduced scene and not the rich profile scene.
C5_FailedLookupReducedScene ==
    (served.request.path = "/github" /\ Failed(served.outcome)) =>
        IsDegradedScene(response.doc) /\ ~IsRichScene(response.doc)

Routes == {"/", "/image", "/svg", "/github"} \cup StaticPaths

Answered == response # NoResponse /\ served.request.method = "GET"

\* C6 as stated: a GET is answered with 200, 404 or a plain-text 500.
C6_OnlyNotFoundAndPlain500 ==
    Answered =>
        /\ response.status \in {200, 404, 500}
        /\ response.status = 500 => response.headers["Content-Type"] = "text/plain"

\* C6: a GET is answered with 200, with 404 for a path that is no route, or
\* with a plain-text 500 or 503 when an exception was caught; never with
\* 400, 502 or 504.
C6_StatusesOfGet ==
    Answered =>
        /\ response.status \in {200, 404, 500, 503}
        /\ response.status = 404 <=>
               (served.request.path \notin Routes
                /\ "static-content" \notin served.env.failing)
        /\ response.status # 200 =>
               /\ response.headers["Content-Type"] = "text/plain"
               /\ response.doc = NoDoc
        /\ response.status \in {500, 503} => served.env.failing # {}
        /\ response.status = 503 => response.headers["Retry-After"] = "60"

\* the handlers module cannot be loaded: the router's catch answers 503
C6_Witness ==
    /\ Answered
    /\ served.request.path = "/github"
    /\ served.env.failing = {"handlers"}
    /\ response.status = 503
    /\ response.text = "Service temporarily unavailable"

(***************************************************************************)
(* Properties of the lookup service                                        *)
(***************************************************************************)
Younger(entry, t) == entry.has /\ t - entry.timestamp < 5 * 60 * 1000
Older(entry, t) == entry.has /\ t - entry.timestamp > 5 * 60 * 1000

\* C7: a call that finds an entry younger than five minutes returns the
\* cached record without a network call; any other call issues exactly one
\* outbound call, before and after it settles.
C7_FreshHitElseOneFetch ==
    \A i \in 1..Len(lookups) :
        LET l == lookups[i]
        IN  IF Younger(l.entrySeen, l.startedAt)
            THEN /\ l.fetches = 0
                 /\ l.pc = "done"
                 /\ l.outcome = Resolved(l.entrySeen.data)
            ELSE l.fetches = 1

\* a second call ten seconds after the first stored: served from the cache
C7_Witness ==
    /\ Len(lookups) = 2
    /\ lookups[1].fetches = 1 /\ lookups[1].outcome.ok
    /\ lookups[2].user = lookups[1].user
    /\ lookups[2].startedAt - lookups[2].entrySeen.timestamp = timeout
    /\ lookups[2].fetches = 0
    /\ lookups[2].outcome = lookups[1].outcome

\* C8 as stated: once a call that found an expired entry has settled, that
\* entry is no longer the one in the cache.
C8_ExpiredGoneAfterLookup ==
    \A i \in 1..Len(lookups) :
        LET l == lookups[i]
        IN  (l.pc = "done" /\ Older(l.entrySeen, l.startedAt)) =>
                l.cacheAfter # l.entrySeen

\* C8: a call that found an expired entry replaces it with the fetched record
\* stamped with the time of the store when the refetch succeeds, and leaves
\* the cache entry as it was when the refetch fails.
C8_ExpiredReplacedOnSuccessKeptOnFailure ==
    \A i \in 1..Len(lookups) :
        LET l == lookups[i]
        IN  (l.pc = "done" /\ Older(l.entrySeen, l.startedAt)) =>
                IF l.outcome.ok
                THEN l.cacheAfter = Entry(l.outcome.data, l.settledAt)
                ELSE l.cacheAfter = l.cacheBefore

\* the refetch of an expired entry failed and the expired entry is still cached
C8_Witness ==
    \E i \in 1..Len(lookups) :
        LET l == lookups[i]
        IN  /\ l.pc = "done"
            /\ Older(l.entrySeen, l.startedAt)
            /\ Failed(l.outcome)
            /\ cache[l.user] = l.entrySeen
            /\ Older(cache[l.user], now)

RECURSIVE LastStored(_, _)
LastStored(log, u) ==
    IF log = <<>> THEN NoEntry
    ELSE IF log[Len(log)].user = u THEN log[Len(log)].entry
    ELSE LastStored(SubSeq(log, 1, Len(log) - 1), u)

\* C9: at every moment the entry of u is the record of the successful fetch
\* for u processed last, stamped with the time it was stored (no entry if
\* there was none); failed fetches leave no trace.
C9_LastProcessedFetchWins ==
    \A u \in Users : cache[u] = LastStored(stored, u)

\* two calls both missed; the one started second was processed first, and the
\* entry is the one the first call stored afterwards
C9_Witness ==
    /\ Len(stored) = 2
    /\ stored[1].by = 2 /\ stored[2].by = 1
    /\ stored[1].user = stored[2].user
    /\ stored[1].entry.data # stored[2].entry.data
    /\ stored[1].entry.timestamp < stored[2].entry.timestamp
    /\ lookups[2].entrySeen = NoEntry
    /\ cache[stored[2].user] = stored[2].entry

ExpectedClass(cause) ==
    CASE cause.kind = "status" /\ cause.status = 404 -> "NotFound"
      [] cause.kind = "status" /\ cause.status = 403 -> "RateLimited"
      [] cause.kind = "abort" -> "Timeout"
      [] OTHER -> "UpstreamError"

\* the class a caller reads off the rejection
ReportedClass(error, username) ==
    CASE error.message = NotFoundMessage(username) -> "NotFound"
      [] error.message = RateLimitMessage -> "RateLimited"
      [] error.message = TimeoutMessage -> "Timeout"
      [] OTHER -> "UpstreamError"

MappedClass(appError) ==
    CASE appError.statusCode = 404 -> "NotFound"
      [] appError.statusCode = 403 -> "RateLimited"
      [] appError.type = "TIMEOUT_ERROR" -> "Timeout"
      [] OTHER -> "UpstreamError"

\* C10: a failed call reports not-found for a 404, rate-limited for a 403,
\* timeout for an abort by the timer and upstream error for anything else,
\* and handleGitHubError maps the rejection to the same class.
C10_ErrorClasses ==
    \A i \in 1..Len(lookups) :
        LET l == lookups[i]
        IN  (l.pc = "done" /\ ~l.outcome.ok) =>
                /\ ReportedClass(l.outcome.error, l.user) = ExpectedClass(l.cause)
                /\ MappedClass(handleGitHubError(l.outcome.error, l.user))
                       = ExpectedClass(l.cause)

\* one call rate-limited by a 403, another answered 504 Gateway Timeout
C10_Witness ==
    /\ Len(lookups) = 2
    /\ lookups[1].cause = Cause("status", 403)
    /\ ReportedClass(lookups[1].outcome.error, lookups[1].user) = "RateLimited"
    /\ lookups[2].cause = Cause("status", 504)
    /\ MappedClass(handleGitHubError(lookups[2].outcome.error, lookups[2].user))
           = "UpstreamError"

\* a call whose timer comes due within the time the model covers
InTime(i) ==
    /\ Len(lookups) >= i
    /\ lookups[i].startedAt + timeout <= MaxNow

PcOf(i) == IF Len(lookups) >= i THEN lookups[i].pc ELSE ""

\* C11: every call that has not settled, whether it waits for the response
\* headers or for the body, eventually settles (with the timeout error at
\* the latest), so its request is eventually answered.
C11_StalledCallEventuallySettles ==
    \A i \in 1..MaxLiveLookups :
        (InTime(i) /\ PcOf(i) # "done") ~> (PcOf(i) = "done")

\* what the timer does cover: a call waiting for the response headers
C11_HeaderStallTimesOut ==
    \A i \in 1..MaxLiveLookups :
        (InTime(i) /\ PcOf(i) = "fetching") ~> (PcOf(i) # "fetching")

(***************************************************************************)
(* Properties of the root route                                            *)
(***************************************************************************)
\* C12: a GET of the root path, when no module fails to load, is answered
\* with Content-Type text/html and never with a generated image.
C12_RootServesHtml ==
    (Answered /\ served.request.path = "/" /\ served.env.failing = {}) =>
        /\ response.headers["Content-Type"] = "text/html"
        /\ response.doc = NoDoc

(***************************************************************************)
(* Properties of the request parameters                                    *)
(***************************************************************************)
\* C13: whatever w and h a request carries (absent, not a number, negative,
\* zero, fractional, very large), the canvas of the image it is answered
\* with is between 100 and 2000 units wide and high.
C13_CanvasInRange ==
    (response # NoResponse /\ response.doc # NoDoc) =>
        /\ response.doc.width \in 100..2000
        /\ response.doc.height \in 100..2000

\* w=-5 and h=5000 are answered with a 100 x 2000 canvas
C13_Witness ==
    /\ Answered
    /\ served.request.path = "/image"
    /\ served.request.q.w = <<"-", "5">>
    /\ served.request.q.h = <<"5", "0", "0", "0">>
    /\ response.doc.width = 100
    /\ response.doc.height = 2000

HasReturned(fn) == args.fn = fn /\ ret.pc = "returned"

ExpectedDimension(raw, dflt) ==
    LET n == parseInt(raw)
    IN  IF n.num THEN Max(100, Min(2000, n.val)) ELSE dflt

\* C14: validateDimensions returns every integer it is given clamped into
\* [100, 2000], and 1200 / 630 only for a value that is not a number.
C14_ClampsEveryInteger ==
    HasReturned("validateDimensions") =>
        /\ ret.value.w = ExpectedDimension(args.width, 1200)
        /\ ret.value.h = ExpectedDimension(args.height, 630)

IsHexColor(color) ==
    /\ Len(color) = 7
    /\ color[1] = "#"
    /\ \A i \in 2..7 : IsHexDigit(color[i])

\* C15: the backgroundColor built by the /image and the /github parameter
\* parser is '#' and six hex digits, whatever the bg parameter holds.
C15_BackgroundIsHexColor ==
    (HasReturned("parseImageParams") \/ HasReturned("parseGitHubParams")) =>
        IsHexColor(ret.value.backgroundColor)

(***************************************************************************)
(* Properties of getGradientStops                                          *)
(***************************************************************************)
\* C16: for a positive count the returned mapping has a stop at offset 0 and
\* a stop at offset 1 (a mapping holds an offset at most once).
C16_StopsAtZeroAndOne ==
    (HasReturned("getGradientStops") /\ args.stops > 0) =>
        /\ Double(0, 0) \in DOMAIN ret.value
        /\ Double(10, 0) \in DOMAIN ret.value

\* C17: getGradientStops returns for every integer count.
C17_GradientStopsReturns ==
    (args.fn = "getGradientStops") => <>(ret.pc = "returned")

(***************************************************************************)
(* Properties of adjustBrightness                                          *)
(***************************************************************************)
Channel(color, i) == ParseHex(SubSeq(color, 2 * i, 2 * i + 1), 0)

\* C18 as stated: adjustBrightness(c, 0) is c, for c in upper or lower case.
C18_ZeroAmountIsIdentity ==
    (HasReturned("adjustBrightness") /\ args.amount = 0) => ret.value = args.color

LowerCase(color) ==
    [i \in 1..Len(color) |->
        IF \E k \in 1..6 : UpperHexDigits[k] = color[i]
        THEN HexDigits[HexVal(color[i]) + 1] ELSE color[i]]

\* C18: adjustBrightness(c, 0) is c spelled with lower-case hex digits: c
\* itself when c is in lower case, the same colour otherwise.
C18_ZeroAmountKeepsColour ==
    (HasReturned("adjustBrightness") /\ args.amount = 0) =>
        /\ ret.value = LowerCase(args.color)
        /\ \A i \in 1..3 : Channel(ret.value, i) = Channel(args.color, i)

\* an upper-case colour comes back in lower case, a padded one keeps its zeros
C18_Witness ==
    /\ HasReturned("adjustBrightness")
    /\ args.amount = 0
    /\ \/ /\ args.color = <<"#", "F", "F", "6", "B", "6", "B">>
          /\ ret.value = Coral
       \/ /\ args.color = <<"#", "0", "0", "0", "a", "f", "f">>
          /\ ret.value = args.color

\* C19: adjustBrightness(c, delta) is '#' and six hex digits, and each of
\* its three channels is the channel of c plus delta, clamped into [0, 255].
C19_ChannelsClamped ==
    HasReturned("adjustBrightness") =>
        /\ IsHexColor(ret.value)
        /\ \A i \in 1..3 :
               Channel(ret.value, i) =
                   Min(255, Max(0, Channel(args.color, i) + args.amount))

\* white made brighter stays white, a mixed colour saturates per channel
C19_Witness ==
    /\ HasReturned("adjustBrightness")
    /\ \/ /\ args.color = <<"#", "f", "f", "f", "f", "f", "f">>
          /\ args.amount = 50
          /\ ret.value = args.color
       \/ /\ args.color = <<"#", "0", "0", "0", "a", "f", "f">>
          /\ args.amount = -20
          /\ ret.value = <<"#", "0", "0", "0", "0", "e", "b">>

(***************************************************************************)
(* Properties of the typewriter text                                       *)
(***************************************************************************)
\* the draw calls that produced per-character sub-fragments
Typewritten ==
    {c \in 1..Len(calls) :
        /\ calls[c].op = "drawAnimatedText"
        /\ calls[c].frag[1].kids # <<>>
        /\ calls[c].frag[1].kids[1].tag = "tspan"}

FracEq(a, b) == a.num * b.den = b.num * a.den
FracLess(a, b) == a.num * b.den < b.num * a.den

\* what C20 says of one call apart from the length of the transition: n
\* invisible sub-fragments in character order, the i-th (0-based) revealed
\* at delay + i * duration / n, later than the one before it
Staggered(c) ==
    LET text == calls[c].text
        n == Len(text)
        kids == calls[c].frag[1].kids
    IN  /\ Len(kids) = n
        /\ \A i \in 1..n :
               /\ kids[i].tag = "tspan"
               /\ kids[i].opacity = "0"
               /\ kids[i].values = <<Str("0"), Str("1")>>
               /\ kids[i].text = EntityOf(text[i])
               /\ FracEq(kids[i].begin, Frac(1500 * n + (i - 1) * 2000, n))
        /\ \A i \in 1..(n - 1) : FracLess(kids[i].begin, kids[i + 1].begin)

\* C20 as stated: the sub-fragments are staggered, and every opacity
\* transition has one and the same duration, whatever the text.
C20_FixedTransitionDuration ==
    /\ \A c \in Typewritten : Staggered(c)
    /\ \A c, d \in Typewritten :
           \A i \in 1..Len(calls[c].text), j \in 1..Len(calls[d].text) :
               FracEq(calls[c].frag[1].kids[i].dur, calls[d].frag[1].kids[j].dur)

\* C20: the sub-fragments are staggered, and every opacity transition lasts
\* half of one character's share of the duration, duration / (2 * n), which
\* is shorter the longer the text.
C20_TypewriterStaggered ==
    \A c \in Typewritten :
        /\ Staggered(c)
        /\ \A i \in 1..Len(calls[c].text) :
               FracEq(calls[c].frag[1].kids[i].dur,
                      Frac(2000, 2 * Len(calls[c].text)))

\* two characters typed after 1.5 s and 2.5 s, each fading in for 0.5 s
C20_Witness ==
    \E c \in Typewritten :
        /\ calls[c].text = <<"<", "&">>
        /\ Len(calls[c].frag[1].kids) = 2
        /\ FracEq(calls[c].frag[1].kids[1].begin, Frac(1500, 1))
        /\ FracEq(calls[c].frag[1].kids[2].begin, Frac(2500, 1))
        /\ FracEq(calls[c].frag[1].kids[2].dur, Frac(500, 1))

(***************************************************************************)
(* Properties of the gradient backgrounds                                  *)
(***************************************************************************)
\* the offset is a number (not NaN) and equals n / d percent
IsPercent(offset, n, d) == offset.den # 0 /\ offset.num * d = n * 100 * offset.den

\* C21: the gradient registered by setGradientBackground has one stop per
\* colour, stop i (0-based) of n at offset i / (n - 1), and a single stop at
\* offset 0.
C21_StopsEvenlySpaced ==
    \A c \in 1..Len(calls) :
        calls[c].op = "setGradientBackground" =>
            LET stops == calls[c].def[1].kids
                n == Len(stops)
            IN  /\ n >= 1
                /\ \A i \in 1..n :
                       /\ stops[i].tag = "stop"
                       /\ IF n = 1 THEN IsPercent(stops[i].offset, 0, 1)
                          ELSE IsPercent(stops[i].offset, i - 1, n - 1)

(***************************************************************************)
(* Properties of serialization                                             *)
(***************************************************************************)
\* C22: a second generator of the same size that was given the same draw
\* calls with the same arguments, at another time, serializes to the same
\* document.
C22_SameCallsSameDocument == toSVG(twin) = toSVG(gen)

\* C23: a second toSVG() with no draw call in between returns the document
\* the first one returned, and the fragments are still the ones serialized.
C23_SerializeTwiceIdentical ==
    previous # NoDoc =>
        /\ svg = previous
        /\ svg.body = gen.elements

\* a generator holding two fragments or more has been serialized twice
C23_Witness ==
    /\ previous # NoDoc
    /\ Len(gen.elements) >= 2
    /\ svg = previous
    /\ svg.body = gen.elements

(***************************************************************************)
(* Properties of the /image scene                                          *)
(***************************************************************************)
ImageAnswered ==
    /\ Answered
    /\ served.request.path = "/image"
    /\ response.status = 200
    /\ response.doc # NoDoc

\* the full-canvas rectangles of a document
BackgroundRects(doc) ==
    {k \in 1..Len(doc.body) :
        doc.body[k].tag = "rect" /\ doc.body[k].style = <<"100%", "100%">>}

\* the gradients a fill refers to
GradientsOf(doc, fill) ==
    {k \in 1..Len(doc.body) :
        /\ doc.body[k].tag = "defs"
        /\ doc.body[k].def = "linearGradient"
        /\ fill.url
        /\ doc.body[k].id = fill.id}

StopColours(gradient) ==
    LET stops == SelectSeq(gradient.kids, LAMBDA k : k.tag = "stop")
    IN  [i \in 1..Len(stops) |-> stops[i].color]

C25_ImageNotCached ==
    ImageAnswered =>
        response.headers["Cache-Control"] =
            "private, no-cache, no-store, must-revalidate"

CorsHeaders ==
    [n \in {"Access-Control-Allow-Origin", "Access-Control-Allow-Methods",
            "Access-Control-Allow-Headers"} |->
        CASE n = "Access-Control-Allow-Origin" -> "*"
          [] n = "Access-Control-Allow-Methods" -> "GET, POST, OPTIONS"
          [] n = "Access-Control-Allow-Headers" -> "Content-Type"]

SecurityHeaders ==
    [n \in {"X-Content-Type-Options", "X-Frame-Options", "X-XSS-Protection"} |->
        CASE n = "X-Content-Type-Options" -> "nosniff"
          [] n = "X-Frame-Options" -> "DENY"
          [] n = "X-XSS-Protection" -> "1; mode=block"]

C27_ProfileRequestTarget ==
    HasReturned("getUserInfo") =>
        /\ ret.value.path =
               <<<<"u", "s", "e", "r", "s">>,
                 IF args.q.user # <<>> THEN args.q.user ELSE DefaultUser>>
        /\ ret.value.query = <<>>

(***************************************************************************)
(* Properties of the animation kind                                        *)
(***************************************************************************)
\* C28: whatever animateType an animated /image request carries, the
\* animateType of its parsed parameters is color, position or opacity, and
\* the background gradient of the image has one stop for each of the four
\* colours handed to the builder.
C28_AnimateTypeIsKnown ==
    (ImageAnswered /\ served.request.q.animated = "true") =>
        /\ parseImageParams(served.request.q, served.env.random).animateType
               \in {"color", "position", "opacity"}
        /\ \A r \in BackgroundRects(response.doc) :
               \A k \in GradientsOf(response.doc, response.doc.body[r].fill) :
                   Len(StopColours(response.doc.body[k])) = 4

(***************************************************************************)
(* Properties of optimizedFetch                                            *)
(***************************************************************************)
FetchCall == args.fn = "optimizedFetch" /\ ret # NoResult

\* C29: in a call of optimizedFetch a 4xx response is the last attempt and
\* the call then fails with that response's error; an attempt is followed
\* by another only after a network error or a 5xx response; there are at
\* most `retries` attempts; a wait follows every attempt but the last one
\* allowed, so none follows the final attempt.
C29_NoRetryAfterClientError ==
    FetchCall =>
        /\ Len(ret.attempts) <= args.retries
        /\ Len(ret.waits) <= Len(ret.attempts)
        /\ Len(ret.waits) < Max(args.retries, 1)
        /\ \A i \in 1..Len(ret.attempts) :
               /\ ret.attempts[i] \in 400..499 =>
                      /\ i = Len(ret.attempts)
                      /\ ret.pc = "thrown"
                      /\ ret.error = HttpError(ret.attempts[i])
               /\ i < Len(ret.attempts) =>
                      ret.attempts[i] = 0 \/ ret.attempts[i] \in 500..599

(***************************************************************************)
(* Properties of the timeout timer                                         *)
(***************************************************************************)
\* C30: once a call of getUserInfo that armed its timeout timer has
\* returned or thrown, that timer has fired or has been cancelled: no
\* settled call has a timer still pending.
C30_NoTimerPendingAfterSettle ==
    \A i \in 1..Len(lookups) :
        (lookups[i].pc = "done" /\ lookups[i].fetches > 0) =>
            lookups[i].timer \in {"fired", "cleared"}

====
